---- MODULE Spec2Model ----
(***************************************************************************)
(* SawDisk: the scan-session manager (scan_manager.py), the scan history   *)
(* store (scan_history.py) and the supervising scan thread that drives     *)
(* DiskScanner.scan (scanner.py).                                          *)
(*                                                                         *)
(* External callers enter start_scan / stop_scan / get_current_status,     *)
(* whose bodies run under ScanManager.session_lock.  Every accepted        *)
(* start_scan spawns one scan thread running _run_scan_thread, whose       *)
(* writes to its session are NOT made under the lock; only its finally     *)
(* block takes it.                                                         *)
(*                                                                         *)
(* Spec      the manager with MaxScans scans; collection is a choice of    *)
(*           the number of candidates, config.verbose is off               *)
(* FairSpec  the same with MaxLiveScans scans, under fair scheduling       *)
(* PoolSpec  the worker pool of DiskScanner.scan with up to MaxPoolFiles   *)
(*           candidates and config.verbose on or off                       *)
(* CollectSpec  DiskScanner._collect_files on every small file tree        *)
(* ClassifySpec CryptoDetector.analyze_file (crypto_detector.py) on every  *)
(*           file of a menu of names and contents                         *)
(* HistorySpec  a ScanHistoryManager taken by itself: save_scan, a reload, *)
(*           create_scan_directory and cleanup_old_scans                  *)
(***************************************************************************)
EXTENDS Integers, FiniteSets, Sequences, TLC

\* ------------------------------------------------------------------ bounds
MaxScans == 3        \* scan ids handed out by _generate_scan_id
MaxFiles == 1        \* candidate files a collection can return
NumCallers == 2      \* external threads calling into the manager
MaxCallbacks == 1    \* observers registered through add_status_callback
MaxLiveScans == 2    \* scan ids handed out in the fair specification
MaxPoolFiles == 3    \* candidate files in the specification of the worker pool
MaxPoolScans == 1    \* scan ids handed out in the specification of the worker pool
MaxDirs == 4         \* directories of a file tree
MaxLevels == 3       \* directory levels below the root of a file tree
MaxDepth == 1        \* largest config.max_depth
MaxSize == 2         \* largest file size; config.max_file_size is one less
MaxRecords == 3      \* scan ids of the history store taken by itself
MaxTime == 2         \* timestamps of the records of that store
MaxKept == 2         \* largest max_scans; stands for the default of 50 too
MaxWriteErrors == 1  \* writes of the history file that fail
MaxObservers == 2    \* observers of either kind, ObserverSpec
MaxObserverScans == 1 \* scans started in ObserverSpec
MaxRouteScans == 2   \* scans started in RouteSpec
MaxRecordScans == 2  \* scans started in RecordSpec

ScanIds == 1..MaxScans
Threads == 1..MaxScans          \* the thread spawned by the start of scan id t
Callers == 1..NumCallers
NoSession == 0                  \* Python None for a session reference

VARIABLES
    current_session,   \* ScanManager.current_session: NoSession or a scan id
    session,           \* the ScanSession objects: status, stop_requested, results
    scanner,           \* per session DiskScanner: scan_progress counters, results
    scans,             \* ScanHistoryManager.scans: scan id -> ScanRecord
    reports,           \* scan ids for which ReportGenerator wrote a report
    callbacks,         \* len(ScanManager._status_callbacks)
    notified,          \* updates the step just taken delivered to the observers
    lock,              \* owner of session_lock: 0 (free) or a caller
    cpc,               \* per caller: position inside the manager method
    scan_id,           \* per caller: local scan_id of start_scan
    response,          \* the value the step just taken returned to its caller
    pc,                \* per scan thread: position in _run_scan_thread
    tsession,          \* per scan thread: its local `session`
    files_to_scan,     \* per scan thread: len(files_to_scan) in scan()
    completed_count,   \* per scan thread: completed_count in scan()
    futures,           \* per scan thread: futures as_completed has yet to yield
    fs,                \* _collect_files: the file tree under scan_path and the config
    walk,              \* _collect_files: the os.walk loop, the statistics, the list
    analysis,          \* _scan_file: the file, whether it was analysed, the finding
    history,           \* a ScanHistoryManager: scans, the history file, the scan dirs
    cls                \* ScanManager._instance, its _initialized, ScanManager._lock

vars == <<current_session, session, scanner, scans, reports, callbacks, notified,
          lock, cpc, scan_id, response, pc, tsession, files_to_scan, completed_count,
          futures, fs, walk, analysis, history, cls>>

\* the state of the parts taken by themselves: one run of _collect_files,
\* one run of analyze_file, one history store
detailVars == <<fs, walk, analysis, history, cls>>

mgrVars == <<current_session, session, scanner, scans, reports, callbacks>>
threadVars == <<pc, tsession, files_to_scan, completed_count, futures>>

\* ------------------------------------------------------------ data values
NonTerminal == {"running", "stopping"}
Terminal == {"completed", "stopped", "error"}

NoRecord == [status |-> "none", files_found |-> 0, report |-> FALSE]

ScanSession == [status |-> "running", stop_requested |-> FALSE, results |-> 0]

ScanRecord == [status |-> "running", files_found |-> 0, report |-> FALSE]

DiskScanner == [estimated_total_files |-> 0, files_scanned |-> 0, files_found |-> 0]

\* A ScanSession is referenced by ScanManager.current_session and by the local
\* `session` of scan threads only.  Once none of them refers to it the object
\* is unreachable, and the model forgets its fields.
Dropped == [status |-> "dropped", stop_requested |-> FALSE, results |-> 0]

Reachable(s, cur, locals) == s = cur \/ \E t \in Threads : locals[t] = s

Sweep(sess, cur, locals) ==
    [s \in ScanIds |->
        IF sess[s].status # "none" /\ ~Reachable(s, cur, locals)
        THEN Dropped ELSE sess[s]]

SweepScanner(scn, sess, cur, locals) ==
    [s \in ScanIds |->
        IF sess[s].status # "none" /\ ~Reachable(s, cur, locals)
        THEN DiskScanner ELSE scn[s]]

NoResponse == [op |-> "none", ok |-> FALSE, status |-> "none", scan_id |-> 0]

\* a step that returns to no caller / that invokes no observer
NoReturn == response' = NoResponse
Quiet == notified' = {}

\* ------------------------------------------------------------ helpers
\* threading.Thread.is_alive of the thread spawned for scan id t
is_alive(t) == pc[t] \notin {"unstarted", "done"}

is_scan_running_RunningOnly ==
    /\ current_session # NoSession
    /\ session[current_session].status = "running"
    /\ is_alive(current_session)

is_scan_running_NoStatus ==
    /\ current_session # NoSession
    /\ is_alive(current_session)

is_scan_running ==
    /\ current_session # NoSession
    /\ session[current_session].status \in {"running", "stopping"}
    /\ is_alive(current_session)

\* _generate_scan_id: a fresh id (time stamp plus random suffix)
Created == {s \in ScanIds : session[s].status # "none"}
_generate_scan_id == Cardinality(Created) + 1

\* what a registered callback does when it is called
ObserverKinds == {"returns", "raises"}

\* _notify_status, lines 60-63, with the call outside any try statement
TryCall_NoExcept(i) ==
    IF callbacks[i] = "raises" THEN "raised" ELSE "returned"

\* _notify_status, lines 60-63: callback i is called inside try; an exception
\* it raises is caught and printed
TryCall(i) ==
    IF callbacks[i] = "raises" THEN "caught" ELSE "returned"

\* _notify_status, lines 59-63: the loop over the callbacks from callback i
\* on: the calls made, and whether an exception leaves the loop
RECURSIVE CallbackLoop(_, _)
CallbackLoop(i, update) ==
    IF i > Len(callbacks)
    THEN [invoked |-> {}, raised |-> FALSE]
    ELSE IF TryCall(i) = "raised"
    THEN [invoked |-> {<<i, update>>}, raised |-> TRUE]
    ELSE LET rest == CallbackLoop(i + 1, update) IN
         [invoked |-> {<<i, update>>} \cup rest.invoked, raised |-> rest.raised]

\* an exception leaves _notify_status
NotifyRaises(update) == CallbackLoop(1, update).raised

\* _notify_status: every registered callback receives the update
_notify_status(update) ==
    notified' = CallbackLoop(1, update).invoked

\* ScanHistoryManager.get_scan / save_scan
get_scan(s) == scans[s]
save_scan(s, rec) == scans' = [scans EXCEPT ![s] = rec]

\* Callers are anonymous: a call occupies the lowest caller slot not inside a
\* manager method.
FreeSlot(c) == cpc[c] = "idle" /\ \A d \in Callers : d < c => cpc[d] # "idle"

\* `with self.session_lock:` can be entered
LockIgnored == TRUE
LockFree == lock = 0

\* ------------------------------------------------------------ collector
\* A directory is the sequence of names leading to it from scan_path (the
\* root is <<>>); fs.dirs is the set of directories, fs.files the entries
\* scandir lists in each of them.
DirNames == {"docs", ".Trashes"}

\* line 188: the volume-metadata directories removed from `dirs`
SkippedNames == {".Spotlight-V100", ".Trashes", ".TemporaryItems"}

\* config.py, lines 23-33 and 36-47 (the patterns as the code lower-cases them)
crypto_extensions ==
    {".wallet", ".json", ".dat", ".key", ".pem", ".p12", ".pfx", ".txt", ".csv",
     ".kdbx", ".db", ".sqlite", ".walletdb", ".seed", ".mnemonic", ".backup",
     ".keystore", ".cert", ".crt", ".pub", ".private", ".store"}
crypto_content_extensions == {".txt", ".json", ".csv", ".log", ".cfg", ".conf", ".ini"}
wallet_patterns ==
    {"wallet.dat", "wallet", "default_wallet", "electrum", "keystore", "utc--",
     "litecoin", "binance", "coinbase", "trustwallet"}

\* str.lower on the names and suffixes that occur
lower(str) ==
    CASE str = ".DAT" -> ".dat"
      [] str = "WALLET.DAT" -> "wallet.dat"
      [] str = "UTC--2020" -> "utc--2020"
      [] str = "UTC--keystore.json" -> "utc--keystore.json"
      [] str = "Binance.TXT" -> "binance.txt"
      [] OTHER -> str

\* the patterns that are substrings of a lower-cased name
SubstringsOf(name) ==
    CASE name = "wallet.dat" -> {"wallet.dat", "wallet"}
      [] name = "utc--2020" -> {"utc--"}
      [] name = "wallet.lnk" -> {"wallet"}
      [] name = "test_wallet.dat" -> {"wallet.dat", "wallet"}
      [] name = "utc--keystore.json" -> {"keystore", "utc--"}
      [] name = "electrum_keystore" -> {"electrum", "keystore"}
      [] name = "binance.txt" -> {"binance"}
      [] OTHER -> {}

\* Directory entries.  kind: a regular file, a symbolic link to a file, or a
\* file whose stat() raises OSError (permission denied, vanished)
Entry(name, suffix, size, kind) ==
    [name |-> name, suffix |-> suffix, size |-> size, kind |-> kind]

FileMenu ==
    { <<>>,
      << Entry("WALLET.DAT", ".DAT", MaxSize - 1, "regular"),
         Entry("photo.jpg", ".jpg", 0, "regular"),
         Entry("wallet.lnk", ".lnk", 0, "symlink") >>,
      << Entry("gone.txt", ".txt", 0, "error"),
         Entry("notes.log", ".log", 0, "regular"),
         Entry("big.key", ".key", MaxSize, "regular"),
         Entry("id.pem", ".pem", 0, "regular"),
         Entry("UTC--2020", "", 0, "regular") >> }

\* the file trees with at most n directories, none deeper than MaxLevels
RECURSIVE Trees(_)
Trees(n) ==
    IF n <= 1 THEN {{<<>>}}
    ELSE LET smaller == Trees(n - 1) IN
         smaller \cup
         UNION { { T \cup {Append(d, name)} :
                     d \in {e \in T : Len(e) < MaxLevels}, name \in DirNames } :
                 T \in smaller }

FileTrees ==
    UNION { { [max_depth |-> m, max_file_size |-> MaxSize - 1, dirs |-> T, files |-> f] :
                m \in 0..MaxDepth, f \in [T -> FileMenu] } :
            T \in Trees(MaxDirs) }

NoTree ==
    [max_depth |-> 0, max_file_size |-> MaxSize - 1, dirs |-> {<<>>},
     files |-> [d \in {<<>>} |-> <<>>]]

\* _collect_files, lines 165-181: before the first directory
WalkStart ==
    [todo |-> << <<>> >>, listed |-> {}, visited |-> {},
     total_files_scanned |-> 0, total_directories |-> 0, scan_depth_reached |-> 0,
     counted |-> {}, files |-> <<>>, returned |-> FALSE]

\* lines 191-192
dir_depth(root) == IF root = <<>> THEN 0 ELSE Len(root) - 1

\* the subdirectories scandir lists in root, and those line 188 keeps
Subdirs(root) ==
    {d \in fs.dirs : Len(d) = Len(root) + 1 /\ SubSeq(d, 1, Len(root)) = root}
Kept(root) == {d \in Subdirs(root) : d[Len(d)] \notin SkippedNames}

RECURSIVE InOrder(_)
InOrder(S) ==
    IF S = {} THEN <<>>
    ELSE LET d == CHOOSE e \in S : TRUE IN <<d>> \o InOrder(S \ {d})

_is_crypto_related_file(f) == lower(f.suffix) \in crypto_extensions
_has_crypto_pattern_in_name(f) == SubstringsOf(lower(f.name)) \cap wallet_patterns # {}

\* lines 256-260, without the text-content extensions
should_scan_CryptoOnly(f) ==
    _is_crypto_related_file(f) \/ _has_crypto_pattern_in_name(f)

\* lines 256-260
should_scan(f) ==
    \/ _is_crypto_related_file(f)
    \/ _has_crypto_pattern_in_name(f)
    \/ lower(f.suffix) \in crypto_content_extensions

\* lines 215-274, with the statistics updated for candidates only
FileStepCandidatesCounted(root, i, f, acc) ==
    IF f.kind # "regular" \/ f.size > fs.max_file_size \/ ~should_scan(f)
    THEN acc
    ELSE [acc EXCEPT !.total_files_scanned = @ + 1,
                     !.counted = @ \cup {<<root, i>>},
                     !.files = Append(@, <<root, i>>)]

\* lines 215-274, the body of the loop over files_list for entry i of root:
\* a symbolic link fails the test of line 216, a stat() that raises is caught
\* at line 272; a regular file is counted, and appended when it is not too
\* large and an inclusion rule matches
FileStep(root, i, f, acc) ==
    IF f.kind # "regular"
    THEN acc
    ELSE LET seen == [acc EXCEPT !.total_files_scanned = @ + 1,
                                 !.counted = @ \cup {<<root, i>>}] IN
         IF f.size > fs.max_file_size
         THEN seen
         ELSE IF should_scan(f)
         THEN [seen EXCEPT !.files = Append(@, <<root, i>>)]
         ELSE seen

\* lines 211-274, with an entry whose stat() raises ending the loop
RECURSIVE ProcessFilesUntilError(_, _, _, _)
ProcessFilesUntilError(root, list, i, acc) ==
    IF i > Len(list) \/ list[i].kind = "error"
    THEN acc
    ELSE ProcessFilesUntilError(root, list, i + 1, FileStep(root, i, list[i], acc))

\* lines 211-274: the loop over files_list from entry i on
RECURSIVE ProcessFiles(_, _, _, _)
ProcessFiles(root, list, i, acc) ==
    IF i > Len(list)
    THEN acc
    ELSE ProcessFiles(root, list, i + 1, FileStep(root, i, list[i], acc))

\* the variables of the manager and its threads, which a walk does not touch
sessionVars == <<mgrVars, threadVars, notified, lock, cpc, scan_id, response, cls>>

\* lines 182-274: os.walk yields the next directory, which it has listed; the
\* metadata directories are removed from its subdirectories; beyond the depth
\* limit the subdirectories are dropped and the directory is left; otherwise
\* the directory statistics are updated, the files processed, and os.walk
\* goes on with the subdirectories kept
WalkDir ==
    /\ ~walk.returned
    /\ walk.todo # <<>>
    /\ LET root == Head(walk.todo)
           listed == walk.listed \cup {root} IN
       IF dir_depth(root) > fs.max_depth
       THEN walk' = [walk EXCEPT !.todo = Tail(@), !.listed = listed]
       ELSE LET counted ==
                    IF dir_depth(root) > 0
                    THEN [walk EXCEPT
                            !.total_directories = @ + 1,
                            !.scan_depth_reached =
                                IF dir_depth(root) > @ THEN dir_depth(root) ELSE @]
                    ELSE walk
                done == ProcessFiles(root, fs.files[root], 1, counted) IN
            walk' = [done EXCEPT !.todo = InOrder(Kept(root)) \o Tail(walk.todo),
                                 !.listed = listed,
                                 !.visited = @ \cup {root}]
    /\ UNCHANGED <<fs, analysis, history, sessionVars>>

\* lines 281-294: the walk is over, the candidate list is returned
WalkReturn ==
    /\ ~walk.returned
    /\ walk.todo = <<>>
    /\ walk' = [walk EXCEPT !.returned = TRUE]
    /\ UNCHANGED <<fs, analysis, history, sessionVars>>

\* ------------------------------------------------------------ classifier
\* CryptoDetector.analyze_file on one file.  A file is its name, what its
\* bytes are, what magic.from_file makes of it ("text": a text/ type,
\* "other": any other type, "raise": an exception) and whether open() on it
\* succeeds.  The bytes are given by what the library calls of the detectors
\* observe on them: json.loads (json, keys), the WIF regex (wif), the two
\* hex regexes on every stripped line (lines), str.split (words, and for
\* each of the first five words whether it is in the word list), the config
\* regexes (configs), the product names and the magic number found in the
\* bytes (signatures, magic) and a NUL byte among the first 1024 (nul).
\* Confidence is counted in tenths.
FileNames ==
    {"wallet.dat", "test_wallet.dat", "notes.txt", "UTC--keystore.json",
     "electrum_keystore", "Binance.TXT"}

\* the contents: the files of test_sawdisk.py and variations of them
Contents ==
    {
      [label |-> "empty", json |-> "invalid", keys |-> {}, wif |-> FALSE,
       lines |-> <<"other">>, words |-> 0, first |-> <<>>,
       configs |-> {}, signatures |-> {}, magic |-> FALSE, nul |-> FALSE],
      [label |-> "magic", json |-> "invalid", keys |-> {}, wif |-> FALSE,
       lines |-> <<"other">>, words |-> 4, first |-> <<FALSE, FALSE, FALSE, FALSE>>,
       configs |-> {}, signatures |-> {}, magic |-> TRUE, nul |-> FALSE],
      [label |-> "magic_sig", json |-> "invalid", keys |-> {}, wif |-> FALSE,
       lines |-> <<"other">>, words |-> 3, first |-> <<FALSE, FALSE, FALSE>>,
       configs |-> {}, signatures |-> {"Bitcoin"}, magic |-> TRUE, nul |-> TRUE],
      [label |-> "sig_eth_ltc", json |-> "invalid", keys |-> {}, wif |-> FALSE,
       lines |-> <<"other">>, words |-> 3, first |-> <<FALSE, FALSE, FALSE>>,
       configs |-> {}, signatures |-> {"Ethereum", "Litecoin"}, magic |-> FALSE, nul |-> TRUE],
      [label |-> "keystore_json", json |-> "dict", keys |-> {"crypto", "version"}, wif |-> FALSE,
       lines |-> <<"other", "other", "other", "other", "other", "other", "other", "other", "other">>, words |-> 15, first |-> <<FALSE, FALSE, FALSE, FALSE, FALSE>>,
       configs |-> {}, signatures |-> {}, magic |-> FALSE, nul |-> FALSE],
      [label |-> "multibit_json", json |-> "dict", keys |-> {"walletModel", "wallets"}, wif |-> FALSE,
       lines |-> <<"other">>, words |-> 4, first |-> <<FALSE, FALSE, FALSE, FALSE>>,
       configs |-> {}, signatures |-> {}, magic |-> FALSE, nul |-> FALSE],
      [label |-> "exodus_json", json |-> "dict", keys |-> {"primaryWallet"}, wif |-> FALSE,
       lines |-> <<"other">>, words |-> 2, first |-> <<FALSE, FALSE>>,
       configs |-> {}, signatures |-> {}, magic |-> FALSE, nul |-> FALSE],
      [label |-> "list_json", json |-> "other", keys |-> {}, wif |-> FALSE,
       lines |-> <<"other">>, words |-> 2, first |-> <<FALSE, FALSE>>,
       configs |-> {}, signatures |-> {}, magic |-> FALSE, nul |-> FALSE],
      [label |-> "keys", json |-> "invalid", keys |-> {}, wif |-> TRUE,
       lines |-> <<"other", "other", "hex0x">>, words |-> 3, first |-> <<FALSE, FALSE, FALSE>>,
       configs |-> {}, signatures |-> {}, magic |-> FALSE, nul |-> FALSE],
      [label |-> "wif", json |-> "invalid", keys |-> {}, wif |-> TRUE,
       lines |-> <<"other">>, words |-> 1, first |-> <<FALSE>>,
       configs |-> {}, signatures |-> {}, magic |-> FALSE, nul |-> FALSE],
      [label |-> "hex0x", json |-> "invalid", keys |-> {}, wif |-> FALSE,
       lines |-> <<"hex0x">>, words |-> 1, first |-> <<FALSE>>,
       configs |-> {}, signatures |-> {}, magic |-> FALSE, nul |-> FALSE],
      [label |-> "hex", json |-> "invalid", keys |-> {}, wif |-> FALSE,
       lines |-> <<"hex">>, words |-> 1, first |-> <<FALSE>>,
       configs |-> {}, signatures |-> {}, magic |-> FALSE, nul |-> FALSE],
      [label |-> "seed", json |-> "invalid", keys |-> {}, wif |-> FALSE,
       lines |-> <<"other">>, words |-> 12, first |-> <<TRUE, TRUE, TRUE, TRUE, TRUE>>,
       configs |-> {}, signatures |-> {}, magic |-> FALSE, nul |-> FALSE],
      [label |-> "seed_hex", json |-> "invalid", keys |-> {}, wif |-> FALSE,
       lines |-> <<"other", "hex">>, words |-> 12, first |-> <<TRUE, TRUE, TRUE, TRUE, TRUE>>,
       configs |-> {}, signatures |-> {}, magic |-> FALSE, nul |-> FALSE],
      [label |-> "seed11", json |-> "invalid", keys |-> {}, wif |-> FALSE,
       lines |-> <<"other">>, words |-> 11, first |-> <<TRUE, TRUE, TRUE, TRUE, TRUE>>,
       configs |-> {}, signatures |-> {}, magic |-> FALSE, nul |-> FALSE],
      [label |-> "words12", json |-> "invalid", keys |-> {}, wif |-> FALSE,
       lines |-> <<"other">>, words |-> 12, first |-> <<FALSE, FALSE, FALSE, FALSE, FALSE>>,
       configs |-> {}, signatures |-> {}, magic |-> FALSE, nul |-> FALSE],
      [label |-> "words12_late", json |-> "invalid", keys |-> {}, wif |-> FALSE,
       lines |-> <<"other">>, words |-> 12, first |-> <<FALSE, FALSE, FALSE, FALSE, FALSE>>,
       configs |-> {}, signatures |-> {}, magic |-> FALSE, nul |-> FALSE],
      [label |-> "words12_pass", json |-> "invalid", keys |-> {}, wif |-> FALSE,
       lines |-> <<"other">>, words |-> 12, first |-> <<FALSE, FALSE, FALSE, FALSE, FALSE>>,
       configs |-> {"wallet"}, signatures |-> {}, magic |-> FALSE, nul |-> FALSE],
      [label |-> "seed_pass", json |-> "invalid", keys |-> {}, wif |-> FALSE,
       lines |-> <<"other">>, words |-> 12, first |-> <<TRUE, FALSE, FALSE, FALSE, FALSE>>,
       configs |-> {"wallet"}, signatures |-> {}, magic |-> FALSE, nul |-> FALSE],
      [label |-> "config", json |-> "invalid", keys |-> {}, wif |-> FALSE,
       lines |-> <<"other", "other">>, words |-> 3, first |-> <<FALSE, FALSE, FALSE>>,
       configs |-> {"bitcoin", "wallet"}, signatures |-> {}, magic |-> FALSE, nul |-> FALSE] }

Files ==
    { f \in [name : FileNames, content : Contents,
             mime : {"text", "other", "raise"}, readable : BOOLEAN] :
        ~f.readable => f.mime # "text" }

\* models.py, lines 12-21
ScanResult(item_type, confidence, detection_method) ==
    [item_type |-> item_type, confidence |-> confidence,
     detection_method |-> detection_method]

\* Python None for a finding
NoFinding == ScanResult("None", 0, "None")

NoFile ==
    [name |-> "notes.txt",
     content |-> CHOOSE c \in Contents : c.label = "empty",
     mime |-> "text", readable |-> TRUE]

NoAnalysis == [file |-> NoFile, scanned |-> FALSE, result |-> NoFinding]

\* config.py, lines 36-47: wallet_patterns.items() in the order of the dict,
\* the patterns lower-cased as line 80 compares them
wallet_patterns_items ==
    << <<"bitcoin_core", <<"wallet.dat", "wallet">> >>,
       <<"electrum", <<"default_wallet", "electrum">> >>,
       <<"ethereum", <<"keystore", "utc--">> >>,
       <<"litecoin", <<"wallet.dat", "litecoin">> >>,
       <<"monero", <<"wallet">> >>,
       <<"dogecoin", <<"wallet.dat">> >>,
       <<"tron", <<"wallet">> >>,
       <<"binance", <<"binance">> >>,
       <<"coinbase", <<"coinbase">> >>,
       <<"trust_wallet", <<"trustwallet">> >> >>

\* the first index of a non-empty set of indices
First(S) == CHOOSE i \in S : \A j \in S : i <= j

\* lines 34-46: the type magic reports does not start with text/; when magic
\* raises, a NUL byte among the first 1024 bytes; when that read raises too,
\* the file counts as binary
_is_binary_file(f) ==
    IF f.mime # "raise" THEN f.mime # "text"
    ELSE IF f.readable THEN f.content.nul
    ELSE TRUE

\* lines 74-91: the first wallet type one of whose patterns is in the name
_check_filename_patterns(f) ==
    LET hits == { i \in DOMAIN wallet_patterns_items :
                    \E j \in DOMAIN wallet_patterns_items[i][2] :
                        wallet_patterns_items[i][2][j] \in SubstringsOf(lower(f.name)) }
    IN IF hits = {} THEN NoFinding
       ELSE ScanResult(wallet_patterns_items[First(hits)][1] \o "_wallet_file", 8,
                       "filename_pattern")

\* lines 96-101: the signatures dict in its order
signatures ==
    << <<"Bitcoin", "bitcoin_core_wallet", 7>>,
       <<"Electrum", "electrum_wallet", 7>>,
       <<"Ethereum", "ethereum_wallet", 6>>,
       <<"Litecoin", "litecoin_wallet", 7>> >>

\* the magic number rule put before the product names
_scan_binary_content_MagicFirst(c) ==
    LET hits == {i \in DOMAIN signatures : signatures[i][1] \in c.signatures}
    IN IF c.magic THEN ScanResult("bitcoin_core_wallet", 9, "bitcoin_wallet_magic")
       ELSE IF hits # {}
       THEN ScanResult(signatures[First(hits)][2], signatures[First(hits)][3],
                       "binary_signature")
       ELSE NoFinding

\* lines 93-125: the first product name found in the bytes, then the magic
\* number of a Bitcoin Core wallet
_scan_binary_content(c) ==
    LET hits == {i \in DOMAIN signatures : signatures[i][1] \in c.signatures}
    IN IF hits # {}
       THEN ScanResult(signatures[First(hits)][2], signatures[First(hits)][3],
                       "binary_signature")
       ELSE IF c.magic THEN ScanResult("bitcoin_core_wallet", 9, "bitcoin_wallet_magic")
       ELSE NoFinding

\* the bytes scanned before the name is checked
_analyze_binary_file_ContentFirst(f) ==
    LET content_match == IF f.readable THEN _scan_binary_content(f.content) ELSE NoFinding
    IN IF content_match # NoFinding THEN content_match
       ELSE _check_filename_patterns(f)

\* lines 48-63: the name is checked before the file is opened; an exception
\* of open() or of the content scan gives None
_analyze_binary_file(f) ==
    LET filename_match == _check_filename_patterns(f)
    IN IF filename_match # NoFinding THEN filename_match
       ELSE IF ~f.readable THEN NoFinding
       ELSE _scan_binary_content(f.content)

\* lines 152-189: file_path.lower() holds "keystore" when the name does (the
\* directories of the path are taken not to)
_check_json_wallet(f) ==
    LET data == f.content.keys
    IN IF f.content.json # "dict" THEN NoFinding
       ELSE IF "crypto" \in data /\ "keystore" \in SubstringsOf(lower(f.name))
       THEN ScanResult("ethereum_keystore", 9, "ethereum_keystore_json")
       ELSE IF "walletModel" \in data \/ "wallets" \in data
       THEN ScanResult("multibit_wallet", 8, "multibit_json")
       ELSE IF "primaryWallet" \in data \/ "wallets" \in data
       THEN ScanResult("exodus_wallet", 8, "exodus_json")
       ELSE NoFinding

\* line 206, eth_pattern ^(0x)?[a-fA-F0-9]{64}$, and line 219, hex_pattern
\* ^[a-fA-F0-9]{64}$ with the length test, on a stripped line
eth_pattern(line) == line \in {"hex0x", "hex"}
hex_pattern(line) == line = "hex"

\* lines 191-228
_check_private_keys(c) ==
    IF c.wif
    THEN ScanResult("bitcoin_private_key", 7, "wif_pattern")
    ELSE IF \E i \in DOMAIN c.lines : eth_pattern(c.lines[i])
    THEN ScanResult("ethereum_private_key", 7, "eth_hex_pattern")
    ELSE IF \E i \in DOMAIN c.lines : hex_pattern(c.lines[i])
    THEN ScanResult("generic_private_key", 5, "hex_64_pattern")
    ELSE NoFinding

\* the word list looked up in all the words there are among the first five,
\* whatever the number of words
_check_seed_phrases_AnyLength(c) ==
    IF \E i \in DOMAIN c.first : c.first[i]
    THEN ScanResult("bip39_seed_phrase", 6, "bip39_word_check")
    ELSE NoFinding

\* lines 230-255
_check_seed_phrases(c) ==
    IF 12 <= c.words /\ c.words <= 24 /\ \E i \in DOMAIN c.first : c.first[i]
    THEN ScanResult("bip39_seed_phrase", 6, "bip39_word_check")
    ELSE NoFinding

\* lines 260-267: config_patterns in the order of the list
config_patterns == <<"bitcoin", "litecoin", "database", "wallet", "electrum", "multibit">>

\* lines 257-279
_check_wallet_configs(c) ==
    LET hits == {i \in DOMAIN config_patterns : config_patterns[i] \in c.configs}
    IN IF hits = {} THEN NoFinding
       ELSE ScanResult(config_patterns[First(hits)] \o "_config", 5, "config_pattern")

\* the seed phrase rule put before the private key rule
_scan_text_content_SeedFirst(f) ==
    IF _check_json_wallet(f) # NoFinding THEN _check_json_wallet(f)
    ELSE IF _check_seed_phrases(f.content) # NoFinding THEN _check_seed_phrases(f.content)
    ELSE IF _check_private_keys(f.content) # NoFinding THEN _check_private_keys(f.content)
    ELSE _check_wallet_configs(f.content)

\* lines 127-150
_scan_text_content(f) ==
    IF _check_json_wallet(f) # NoFinding THEN _check_json_wallet(f)
    ELSE IF _check_private_keys(f.content) # NoFinding THEN _check_private_keys(f.content)
    ELSE IF _check_seed_phrases(f.content) # NoFinding THEN _check_seed_phrases(f.content)
    ELSE IF _check_wallet_configs(f.content) # NoFinding THEN _check_wallet_configs(f.content)
    ELSE NoFinding

\* lines 65-72: an exception of open() gives None
_analyze_text_file(f) ==
    IF ~f.readable THEN NoFinding ELSE _scan_text_content(f)

\* lines 21-32
analyze_file(f) ==
    IF _is_binary_file(f) THEN _analyze_binary_file(f) ELSE _analyze_text_file(f)

\* scanner.py, lines 395-405: _scan_file runs the detector on the file
_scan_file ==
    /\ ~analysis.scanned
    /\ analysis' = [analysis EXCEPT !.scanned = TRUE, !.result = analyze_file(analysis.file)]
    /\ UNCHANGED <<fs, walk, history, sessionVars>>

\* ------------------------------------------------------------ history store
\* A ScanHistoryManager taken by itself: self.scans (a dict, which keeps the
\* order of insertion) as the sequence of its values, the history file, and
\* the scan directories under data_dir.  A record is given by the fields the
\* manager varies; the timestamps (ISO strings, compared as strings) are
\* numbered in their order.  errors counts the writes that failed; max_scans
\* and removed tell of the step just taken, when it was a cleanup, its
\* argument and the scan ids it evicted.
RecordIds == 1..MaxRecords

StoredRecords ==
    { [scan_id |-> i, timestamp |-> t, files_found |-> r[2], status |-> r[1]] :
        i \in RecordIds, t \in 1..MaxTime, r \in {<<"running", 0>>, <<"completed", 1>>} }

\* the history file: there is none before the first write; a write gives it
\* a JSON text; a write that fails once open(..., 'w') emptied the file
\* leaves a text json.load rejects
Missing == [kind |-> "missing", text |-> <<>>]
Partial == [kind |-> "partial", text |-> <<>>]
Written(text) == [kind |-> "json", text |-> text]

NoHistory ==
    [scans |-> <<>>, history_file |-> Missing, dirs |-> {}, errors |-> 0,
     max_scans |-> -1, removed |-> {}]

\* the fields of a ScanRecord as json.dump(sort_keys=True) orders them
sorted_keys == <<"files_found", "scan_id", "status", "timestamp">>

\* line 59, dataclasses.asdict: the dict of the fields
asdict(scan) == [k \in {sorted_keys[i] : i \in DOMAIN sorted_keys} |-> scan[k]]

\* line 61, json.dump: an object is written as its keys in sorted order, each
\* with its value
json_dump(data) ==
    [n \in DOMAIN data |->
        [i \in DOMAIN sorted_keys |-> <<sorted_keys[i], data[n][sorted_keys[i]]>>]]

\* line 43, json.load: an object is read as the dict of its pairs
json_load(text) ==
    [n \in DOMAIN text |->
        [k \in {text[n][i][1] : i \in DOMAIN text[n]} |->
            (CHOOSE p \in {text[n][i] : i \in DOMAIN text[n]} : p[1] = k)[2]]]

\* line 44, ScanRecord(**scan)
ScanRecordOf(scan) ==
    [scan_id |-> scan["scan_id"], timestamp |-> scan["timestamp"],
     files_found |-> scan["files_found"], status |-> scan["status"]]

\* line 44, the dict comprehension: a scan id met again replaces its value
\* and keeps its place
Put(dict, scan_record) ==
    IF \E i \in DOMAIN dict : dict[i].scan_id = scan_record.scan_id
    THEN [i \in DOMAIN dict |->
            IF dict[i].scan_id = scan_record.scan_id THEN scan_record ELSE dict[i]]
    ELSE Append(dict, scan_record)

RECURSIVE Comprehension(_, _, _)
Comprehension(data, n, dict) ==
    IF n > Len(data) THEN dict
    ELSE Comprehension(data, n + 1, Put(dict, ScanRecordOf(data[n])))

\* the file read back with every status rewritten to 'completed'
_load_history_StatusLost(file) ==
    IF file.kind # "json" THEN <<>>
    ELSE LET dict == Comprehension(json_load(file.text), 1, <<>>)
         IN [i \in DOMAIN dict |-> [dict[i] EXCEPT !.status = "completed"]]

\* lines 38-49: no file, or a file json.load rejects, gives an empty history
_load_history(file) ==
    IF file.kind # "json" THEN <<>>
    ELSE Comprehension(json_load(file.text), 1, <<>>)

\* the outcomes of one write of the history file: written; open() raises and
\* the file stays as it was; json.dump raises after open() emptied the file
WriteOutcomes == {"written", "open_raises", "dump_raises"}

\* lines 56-63: the exception of a failed write is printed, not raised
_save_history(h, outcome) ==
    CASE outcome = "written" ->
            [h EXCEPT !.history_file =
                Written(json_dump([n \in DOMAIN h.scans |-> asdict(h.scans[n])]))]
      [] outcome = "open_raises" -> [h EXCEPT !.errors = @ + 1]
      [] outcome = "dump_raises" -> [h EXCEPT !.history_file = Partial, !.errors = @ + 1]

\* a write can fail while fewer than MaxWriteErrors writes have
CanWrite(h, outcome) == outcome = "written" \/ h.errors < MaxWriteErrors

\* lines 69-71: sorted(..., reverse=True) is stable, records of one timestamp
\* keep the order of the dict
RECURSIVE Sorted(_, _, _)
Sorted(values, n, acc) ==
    IF n > Len(values) THEN acc
    ELSE LET k == Cardinality({i \in DOMAIN acc : acc[i].timestamp >= values[n].timestamp})
         IN Sorted(values, n + 1,
                   SubSeq(acc, 1, k) \o <<values[n]>> \o SubSeq(acc, k + 1, Len(acc)))

get_all_scans(h) == Sorted(h.scans, 1, <<>>)

\* lines 51-54, a call of save_scan with any record
HistorySave ==
    \E scan_record \in StoredRecords, outcome \in WriteOutcomes :
        /\ CanWrite(history, outcome)
        /\ history' = _save_history([history EXCEPT !.scans = Put(@, scan_record),
                                                    !.max_scans = -1, !.removed = {}], outcome)
        /\ UNCHANGED <<fs, walk, analysis, sessionVars>>

\* lines 32-36: a new ScanHistoryManager on the same data_dir
HistoryLoad ==
    /\ history' = [history EXCEPT !.scans = _load_history(history.history_file),
                                  !.max_scans = -1, !.removed = {}]
    /\ UNCHANGED <<fs, walk, analysis, sessionVars>>

\* lines 77-81
create_scan_directory ==
    \E s \in RecordIds :
        /\ history' = [history EXCEPT !.dirs = @ \cup {s}, !.max_scans = -1, !.removed = {}]
        /\ UNCHANGED <<fs, walk, analysis, sessionVars>>

\* the records past max_scans in the order of the dict, not of the timestamps
scans_to_remove_Unsorted(h, max_scans) ==
    SubSeq(h.scans, max_scans + 1, Len(h.scans))

\* lines 85-87: scans_list[max_scans:]
scans_to_remove(h, max_scans) ==
    SubSeq(get_all_scans(h), max_scans + 1, Len(h.scans))

\* lines 83-99
cleanup_old_scans ==
    \E max_scans \in 0..MaxKept, outcome \in WriteOutcomes :
        /\ CanWrite(history, outcome)
        /\ IF Len(history.scans) > max_scans
           THEN LET removed == scans_to_remove(history, max_scans)
                    ids == {removed[i].scan_id : i \in DOMAIN removed}
                    Stays(scan) == scan.scan_id \notin ids
                IN history' = _save_history(
                       [history EXCEPT !.scans = SelectSeq(@, Stays),
                                       !.dirs = @ \ ids,
                                       !.max_scans = max_scans,
                                       !.removed = ids], outcome)
           ELSE /\ outcome = "written"
                /\ history' = [history EXCEPT !.max_scans = max_scans, !.removed = {}]
        /\ UNCHANGED <<fs, walk, analysis, sessionVars>>

\* ------------------------------------------------------------ Init
\* the manager after construction: no session, no thread, an empty history
\* the class before any ScanManager() call, and with the instance constructed
NoInstance == [instance |-> FALSE, initialized |-> "unset", lock |-> 0, inits |-> 0]
Constructed == [instance |-> TRUE, initialized |-> "true", lock |-> 0, inits |-> 1]

\* the fields __init__ assigns
InitFields ==
    /\ current_session = NoSession
    /\ session = [s \in ScanIds |-> [status |-> "none", stop_requested |-> FALSE, results |-> 0]]
    /\ scanner = [s \in ScanIds |-> DiskScanner]
    /\ scans = [s \in ScanIds |-> NoRecord]
    /\ reports = {}
    /\ callbacks = <<>>
    /\ notified = {}
    /\ lock = 0
    /\ cpc = [c \in Callers |-> "idle"]
    /\ scan_id = [c \in Callers |-> 0]
    /\ response = NoResponse
    /\ pc = [t \in Threads |-> "unstarted"]
    /\ tsession = [t \in Threads |-> NoSession]
    /\ files_to_scan = [t \in Threads |-> 0]
    /\ completed_count = [t \in Threads |-> 0]
    /\ futures = [t \in Threads |-> 0]

\* web_app.py line 44: the one ScanManager() of the program has returned
InitManager ==
    /\ InitFields
    /\ cls = Constructed

Init ==
    /\ InitManager
    /\ fs = NoTree
    /\ walk = WalkStart
    /\ analysis = NoAnalysis
    /\ history = NoHistory

\* ------------------------------------------------------------ observers
\* add_status_callback with a callback of the given kind, while fewer than
\* limit are registered
AddCallbackWithin(callback, limit) ==
    /\ Len(callbacks) < limit
    /\ callbacks' = Append(callbacks, callback)
    /\ NoReturn /\ Quiet
    /\ UNCHANGED <<detailVars, current_session, session, scanner, scans, reports,
                   threadVars, lock, cpc, scan_id>>

\* a callback that returns is registered
add_status_callback == AddCallbackWithin("returns", MaxCallbacks)

\* a callback of either kind is registered
add_status_callback_any ==
    \E callback \in ObserverKinds : AddCallbackWithin(callback, MaxObservers)

\* ------------------------------------------------------------ construction
\* ScanManager() called by thread c: __new__ and then __init__, statement by
\* statement; cpc[c] is the statement the thread is about to execute
Ctor(c, from, to) ==
    /\ cpc[c] = from
    /\ cpc' = [cpc EXCEPT ![c] = to]
    /\ NoReturn /\ Quiet
    /\ UNCHANGED <<fs, walk, analysis, history, session, scanner, scans, reports,
                   threadVars, scan_id>>

\* __new__, line 38: the first test of _instance, outside the class lock;
\* line 43 returns the instance and Python calls __init__ on it
NewCheck(c) ==
    /\ Ctor(c, "idle", IF cls.instance THEN "init_check" ELSE "new_wait")
    /\ UNCHANGED <<cls, current_session, lock, callbacks>>

\* __new__, line 39: the class lock is taken
NewLock(c) ==
    /\ cls.lock = 0
    /\ Ctor(c, "new_wait", "new_test")
    /\ cls' = [cls EXCEPT !.lock = c]
    /\ UNCHANGED <<current_session, lock, callbacks>>

\* __new__, lines 40-41: the second test; the instance is created and
\* assigned to _instance, or the lock is released and the instance returned
NewTest(c) ==
    /\ Ctor(c, "new_test", IF cls.instance THEN "init_check" ELSE "new_flag")
    /\ cls' = IF cls.instance THEN [cls EXCEPT !.lock = 0]
                               ELSE [cls EXCEPT !.instance = TRUE]
    /\ UNCHANGED <<current_session, lock, callbacks>>

\* __new__, lines 42-43: _initialized = False, the lock is released
NewFlag(c) ==
    /\ Ctor(c, "new_flag", "init_check")
    /\ cls' = [cls EXCEPT !.initialized = "false", !.lock = 0]
    /\ UNCHANGED <<current_session, lock, callbacks>>

\* __init__, line 46: _initialized is read without a lock; the attribute is
\* missing (AttributeError), false (the body runs) or true (nothing to do)
InitCheck(c) ==
    /\ Ctor(c, "init_check",
            CASE cls.initialized = "unset" -> "raised"
              [] cls.initialized = "false" -> "init_session"
              [] cls.initialized = "true" -> "constructed")
    /\ cls' = IF cls.initialized = "false"
              THEN [cls EXCEPT !.inits = cls.inits + 1] ELSE cls
    /\ UNCHANGED <<current_session, lock, callbacks>>

\* __init__, line 47: current_session = None
InitSession(c) ==
    /\ Ctor(c, "init_session", "init_lock")
    /\ current_session' = NoSession
    /\ UNCHANGED <<cls, lock, callbacks>>

\* __init__, lines 48-49: a new session_lock, a new ScanHistoryManager
InitLock(c) ==
    /\ Ctor(c, "init_lock", "init_callbacks")
    /\ lock' = 0
    /\ UNCHANGED <<cls, current_session, callbacks>>

\* __init__, line 50: _status_callbacks = []
InitCallbacks(c) ==
    /\ Ctor(c, "init_callbacks", "init_flag")
    /\ callbacks' = <<>>
    /\ UNCHANGED <<cls, current_session, lock>>

\* __init__, line 51: _initialized = True; ScanManager() returns
InitFlag(c) ==
    /\ Ctor(c, "init_flag", "constructed")
    /\ cls' = [cls EXCEPT !.initialized = "true"]
    /\ UNCHANGED <<current_session, lock, callbacks>>

\* a thread whose ScanManager() has returned registers an observer
UseManager ==
    /\ \E c \in Callers : cpc[c] = "constructed"
    /\ add_status_callback_any

\* ------------------------------------------------------------ callers
\* start_scan, lines 74-79: the lock is taken, a scan is running: conflict
StartReject(c) ==
    /\ FreeSlot(c)
    /\ LockFree
    /\ is_scan_running
    /\ response' = [op |-> "start", ok |-> FALSE, status |-> "conflict",
                    scan_id |-> current_session]
    /\ Quiet
    /\ UNCHANGED <<detailVars, mgrVars, threadVars, lock, cpc, scan_id>>

\* start_scan, lines 74-75: the lock is taken, no scan is running; at most
\* `limit` scan ids are handed out
StartAcceptWithin(c, limit) ==
    /\ FreeSlot(c)
    /\ LockFree
    /\ ~is_scan_running
    /\ _generate_scan_id <= limit
    /\ lock' = c
    /\ cpc' = [cpc EXCEPT ![c] = "start_create"]
    /\ NoReturn /\ Quiet
    /\ UNCHANGED <<detailVars, mgrVars, threadVars, scan_id>>

StartAccept(c) == StartAcceptWithin(c, MaxScans)
StartAcceptLive(c) == StartAcceptWithin(c, MaxLiveScans)
StartAcceptPool(c) == StartAcceptWithin(c, MaxPoolScans)

\* web_app.start_scan: the answer for a scan path that does not exist
PathNotFound ==
    [op |-> "start", ok |-> FALSE, status |-> "path_not_found", scan_id |-> 0]

\* web_app.start_scan, lines 333-351, without the test of the scan path
api_start_scan_Unchecked(c, exists) ==
    \/ StartReject(c)
    \/ StartAcceptWithin(c, MaxRouteScans)

\* web_app.start_scan, lines 333-351: a request whose scan path does not
\* exist is answered at once; any other request is handed to
\* ScanManager.start_scan
api_start_scan(c, exists) ==
    \/ /\ ~exists
       /\ FreeSlot(c)
       /\ response' = PathNotFound
       /\ Quiet
       /\ UNCHANGED <<detailVars, mgrVars, threadVars, lock, cpc, scan_id>>
    \/ /\ exists
       /\ \/ StartReject(c)
          \/ StartAcceptWithin(c, MaxRouteScans)

\* start_scan, lines 81-107: new id, new session, the scan thread is started
StartCreate(c) ==
    /\ cpc[c] = "start_create"
    /\ _generate_scan_id <= MaxScans
    /\ LET id == _generate_scan_id IN
        /\ session' = Sweep([session EXCEPT ![id] = ScanSession], id, tsession)
        /\ scanner' = SweepScanner(scanner, session, id, tsession)
        /\ current_session' = id
        /\ pc' = [pc EXCEPT ![id] = "begin"]
        /\ scan_id' = [scan_id EXCEPT ![c] = id]
    /\ cpc' = [cpc EXCEPT ![c] = "start_record"]
    /\ NoReturn /\ Quiet
    /\ UNCHANGED <<detailVars, scans, reports, callbacks, lock,
                   tsession, files_to_scan, completed_count, futures>>

\* start_scan, lines 109-134: the running ScanRecord is saved, success returned
StartRecord(c) ==
    /\ cpc[c] = "start_record"
    /\ save_scan(scan_id[c], ScanRecord)
    /\ response' = [op |-> "start", ok |-> TRUE, status |-> "started",
                    scan_id |-> scan_id[c]]
    /\ Quiet
    /\ lock' = IF lock = c THEN 0 ELSE lock
    /\ cpc' = [cpc EXCEPT ![c] = "idle"]
    /\ scan_id' = [scan_id EXCEPT ![c] = 0]
    /\ UNCHANGED <<detailVars, current_session, session, scanner, reports, callbacks, threadVars>>

\* start_scan, line 124, as far as save_scan's line 53: the running ScanRecord
\* is in the dictionary, the write of the history file begins
StartRecordInsert(c) ==
    /\ cpc[c] = "start_record"
    /\ scans' = [scans EXCEPT ![scan_id[c]] = ScanRecord]
    /\ cpc' = [cpc EXCEPT ![c] = "start_write"]
    /\ NoReturn /\ Quiet
    /\ UNCHANGED <<detailVars, current_session, session, scanner, reports, callbacks,
                   threadVars, lock, scan_id>>

\* start_scan, lines 124-134: _save_history has written the file, success
\* is returned
StartRecordWritten(c) ==
    /\ cpc[c] = "start_write"
    /\ response' = [op |-> "start", ok |-> TRUE, status |-> "started",
                    scan_id |-> scan_id[c]]
    /\ Quiet
    /\ lock' = IF lock = c THEN 0 ELSE lock
    /\ cpc' = [cpc EXCEPT ![c] = "idle"]
    /\ scan_id' = [scan_id EXCEPT ![c] = 0]
    /\ UNCHANGED <<detailVars, mgrVars, threadVars>>

StartAcceptRecord(c) == StartAcceptWithin(c, MaxRecordScans)

\* web_app.get_scan_report: the fields of the stored record of scan s as
\* they are now; no lock is taken
get_scan_report(c, s) ==
    /\ FreeSlot(c)
    /\ response' = [op |-> "record", ok |-> get_scan(s).status # "none",
                    status |-> get_scan(s).status, scan_id |-> s,
                    files_found |-> get_scan(s).files_found,
                    report |-> get_scan(s).report]
    /\ Quiet
    /\ UNCHANGED <<detailVars, mgrVars, threadVars, lock, cpc, scan_id>>

\* stop_scan, lines 138-143: no scan is running
StopReject(c) ==
    /\ FreeSlot(c)
    /\ LockFree
    /\ ~is_scan_running
    /\ response' = [op |-> "stop", ok |-> FALSE, status |-> "none", scan_id |-> 0]
    /\ Quiet
    /\ UNCHANGED <<detailVars, mgrVars, threadVars, lock, cpc, scan_id>>

\* stop_scan, lines 138-139: a scan is running
StopAccept(c) ==
    /\ FreeSlot(c)
    /\ LockFree
    /\ is_scan_running
    /\ lock' = c
    /\ cpc' = [cpc EXCEPT ![c] = "stop_flag"]
    /\ NoReturn /\ Quiet
    /\ UNCHANGED <<detailVars, mgrVars, threadVars, scan_id>>

\* stop_scan, line 146
StopSetFlag(c) ==
    /\ cpc[c] = "stop_flag"
    /\ session' = [session EXCEPT ![current_session].stop_requested = TRUE]
    /\ cpc' = [cpc EXCEPT ![c] = "stop_status"]
    /\ NoReturn /\ Quiet
    /\ UNCHANGED <<detailVars, current_session, scanner, scans, reports, callbacks,
                   threadVars, lock, scan_id>>

\* stop_scan, lines 147-160, with the thread of the session ended as well
StopSetStatusKill(c) ==
    /\ cpc[c] = "stop_status"
    /\ session' = [session EXCEPT ![current_session].status = "stopping"]
    /\ _notify_status(<<"stopping", current_session>>)
    /\ response' = [op |-> "stop", ok |-> TRUE, status |-> "stopping",
                    scan_id |-> current_session]
    /\ lock' = 0
    /\ cpc' = [cpc EXCEPT ![c] = "idle"]
    /\ pc' = [pc EXCEPT ![current_session] = "finally"]
    /\ UNCHANGED <<detailVars, current_session, scanner, scans, reports, callbacks,
                   tsession, files_to_scan, completed_count, futures, scan_id>>

\* stop_scan, lines 147-160: status stopping, observers notified, return
StopSetStatus(c) ==
    /\ cpc[c] = "stop_status"
    /\ session' = [session EXCEPT ![current_session].status = "stopping"]
    /\ _notify_status(<<"stopping", current_session>>)
    /\ response' = IF NotifyRaises(<<"stopping", current_session>>)
                   THEN [op |-> "stop", ok |-> FALSE, status |-> "raised",
                         scan_id |-> current_session]
                   ELSE [op |-> "stop", ok |-> TRUE, status |-> "stopping",
                         scan_id |-> current_session]
    /\ lock' = 0
    /\ cpc' = [cpc EXCEPT ![c] = "idle"]
    /\ UNCHANGED <<detailVars, current_session, scanner, scans, reports, callbacks,
                   threadVars, scan_id>>

\* get_current_status: the four shapes of its return value.  `progress` is
\* files_scanned of get_progress_info, `results` is len(session.results or [])
StatusIdle ==
    [op |-> "status", ok |-> FALSE, status |-> "idle", scan_id |-> 0,
     progress |-> 0, results |-> 0]

StatusRunning(s) ==
    [op |-> "status", ok |-> TRUE, status |-> "running", scan_id |-> s,
     progress |-> scanner[s].files_scanned, results |-> session[s].results]

StatusStopping(s) ==
    [op |-> "status", ok |-> TRUE, status |-> "stopping", scan_id |-> s,
     progress |-> 0, results |-> 0]

StatusOther(s) ==
    [op |-> "status", ok |-> FALSE, status |-> session[s].status, scan_id |-> s,
     progress |-> 0, results |-> session[s].results]

\* get_current_status, lines 164-207, answering idle whenever no scan is running
get_current_status_IdleUnlessRunning(c) ==
    /\ FreeSlot(c)
    /\ LockFree
    /\ IF ~is_scan_running
       THEN response' = StatusIdle /\ UNCHANGED <<lock, cpc>>
       ELSE IF session[current_session].status = "running"
       THEN response' = StatusRunning(current_session) /\ UNCHANGED <<lock, cpc>>
       ELSE /\ NoReturn
            /\ lock' = c
            /\ cpc' = [cpc EXCEPT ![c] = "status_stopping"]
    /\ Quiet
    /\ UNCHANGED <<detailVars, mgrVars, threadVars, scan_id>>

\* get_current_status, lines 164-207, with the progress read under the lock of
\* the worker pool: the query waits while the pool is classifying
get_current_status_UnderPoolLock(c) ==
    /\ FreeSlot(c)
    /\ LockFree
    /\ \A t \in Threads : pc[t] # "pool"
    /\ IF current_session = NoSession
       THEN response' = StatusIdle /\ UNCHANGED <<lock, cpc>>
       ELSE IF session[current_session].status = "running"
       THEN response' = StatusRunning(current_session) /\ UNCHANGED <<lock, cpc>>
       ELSE /\ NoReturn
            /\ lock' = c
            /\ cpc' = [cpc EXCEPT ![c] = "status_stopping"]
    /\ Quiet
    /\ UNCHANGED <<detailVars, mgrVars, threadVars, scan_id>>

\* get_current_status, lines 164-207: the lock is taken; no current session:
\* idle; first read of session.status: running is answered with the progress
\* of the scanner
get_current_status(c) ==
    /\ FreeSlot(c)
    /\ LockFree
    /\ IF current_session = NoSession
       THEN response' = StatusIdle /\ UNCHANGED <<lock, cpc>>
       ELSE IF session[current_session].status = "running"
       THEN response' = StatusRunning(current_session) /\ UNCHANGED <<lock, cpc>>
       ELSE /\ NoReturn
            /\ lock' = c
            /\ cpc' = [cpc EXCEPT ![c] = "status_stopping"]
    /\ Quiet
    /\ UNCHANGED <<detailVars, mgrVars, threadVars, scan_id>>

\* get_current_status, lines 209-215: second read of session.status
StatusElif(c) ==
    /\ cpc[c] = "status_stopping"
    /\ IF session[current_session].status = "stopping"
       THEN /\ response' = StatusStopping(current_session)
            /\ lock' = 0
            /\ cpc' = [cpc EXCEPT ![c] = "idle"]
       ELSE /\ NoReturn
            /\ cpc' = [cpc EXCEPT ![c] = "status_else"]
            /\ UNCHANGED lock
    /\ Quiet
    /\ UNCHANGED <<detailVars, mgrVars, threadVars, scan_id>>

\* get_current_status, lines 217-224: third read of session.status, returned
\* with the results
StatusElse(c) ==
    /\ cpc[c] = "status_else"
    /\ response' = StatusOther(current_session)
    /\ lock' = 0
    /\ cpc' = [cpc EXCEPT ![c] = "idle"]
    /\ Quiet
    /\ UNCHANGED <<detailVars, mgrVars, threadVars, scan_id>>

\* ------------------------------------------------------------ scan thread
\* _run_scan_thread, lines 228-237: the local session is read from the
\* manager, the scan directory is created (which may raise)
ThreadBegin(t) ==
    /\ pc[t] = "begin"
    /\ tsession' = [tsession EXCEPT ![t] = current_session]
    /\ \/ /\ current_session # NoSession
          /\ pc' = [pc EXCEPT ![t] = "collect"]
       \/ pc' = [pc EXCEPT ![t] = "except"]
    /\ NoReturn /\ Quiet
    /\ UNCHANGED <<detailVars, mgrVars, lock, cpc, scan_id, files_to_scan, completed_count, futures>>

\* DiskScanner.scan, lines 50-75, with the stop flag consulted after collection
ThreadCollectChecked(t) ==
    /\ pc[t] = "collect"
    /\ \/ \E n \in 0..MaxFiles :
            /\ files_to_scan' = [files_to_scan EXCEPT ![t] = n]
            /\ futures' = [futures EXCEPT ![t] = n]
            /\ scanner' = [scanner EXCEPT ![tsession[t]].estimated_total_files = n]
            /\ pc' = [pc EXCEPT ![t] =
                        IF n = 0 \/ session[tsession[t]].stop_requested
                        THEN "ret" ELSE "pool"]
       \/ /\ pc' = [pc EXCEPT ![t] = "except"]
          /\ UNCHANGED <<files_to_scan, futures, scanner>>
    /\ NoReturn /\ Quiet
    /\ UNCHANGED <<detailVars, current_session, session, scans, reports, callbacks,
                   lock, cpc, scan_id, tsession, completed_count>>

\* DiskScanner.scan, lines 50-75: collection returns at most `limit` candidates
\* or raises; with candidates one future per candidate is submitted
ThreadCollectWithin(t, limit) ==
    /\ pc[t] = "collect"
    /\ \/ \E n \in 0..limit :
            /\ files_to_scan' = [files_to_scan EXCEPT ![t] = n]
            /\ futures' = [futures EXCEPT ![t] = n]
            /\ scanner' = [scanner EXCEPT ![tsession[t]].estimated_total_files = n]
            /\ pc' = [pc EXCEPT ![t] = IF n = 0 THEN "ret" ELSE "pool"]
       \/ /\ pc' = [pc EXCEPT ![t] = "except"]
          /\ UNCHANGED <<files_to_scan, futures, scanner>>
    /\ NoReturn /\ Quiet
    /\ UNCHANGED <<detailVars, current_session, session, scans, reports, callbacks,
                   lock, cpc, scan_id, tsession, completed_count>>

ThreadCollect(t) == ThreadCollectWithin(t, MaxFiles)
ThreadCollectPool(t) == ThreadCollectWithin(t, MaxPoolFiles)

\* What one classification task and the loop body that harvests its future do:
\*   none          analyze_file returns None
\*   found         analyze_file returns a ScanResult
\*   failed        the classifier raises, _scan_file_with_progress catches it
\*                 and returns None (lines 423-426)
\*   failed_raise  as failed, with config.verbose and the handler's print
\*                 raising: future.result() raises (line 81)
\*   found_raise   as found, with config.verbose and the print of line 106
\*                 raising after the result was appended
Outcomes == {"none", "found", "failed", "failed_raise", "found_raise"}
\* the outcomes of a scan whose config.verbose is off
QuietOutcomes == {"none", "found", "failed"}

\* completed_count += 1 of line 83 and of line 110
CountedInTry(o) == IF o = "failed_raise" THEN 0 ELSE 1
CountedInExcept(o) == IF o \in {"failed_raise", "found_raise"} THEN 1 ELSE 0
Appended(o) == o \in {"found", "found_raise"}

\* DiskScanner.scan, lines 78-112, with a failed task ending the loop
ThreadTaskAborting(t, o) ==
    /\ pc[t] = "pool"
    /\ futures[t] > 0
    /\ LET s == tsession[t]
           cc == completed_count[t] + CountedInTry(o) + CountedInExcept(o) IN
        /\ completed_count' = [completed_count EXCEPT ![t] = cc]
        /\ scanner' = [scanner EXCEPT
               ![s].files_scanned = cc,
               ![s].files_found = IF Appended(o) THEN @ + 1 ELSE @]
        /\ futures' = [futures EXCEPT ![t] =
                          IF o \in {"failed", "failed_raise"} THEN 0 ELSE @ - 1]
        /\ pc' = [pc EXCEPT ![t] = IF futures'[t] = 0 THEN "ret" ELSE "pool"]
    /\ NoReturn /\ Quiet
    /\ UNCHANGED <<detailVars, current_session, session, scans, reports, callbacks,
                   lock, cpc, scan_id, tsession, files_to_scan>>

\* DiskScanner.scan, lines 78-115: as_completed yields one more future and the
\* loop body runs for it; after the last one scan() returns
ThreadTaskOutcome(t, o) ==
    /\ pc[t] = "pool"
    /\ futures[t] > 0
    /\ LET s == tsession[t]
           cc == completed_count[t] + CountedInTry(o) + CountedInExcept(o) IN
        /\ completed_count' = [completed_count EXCEPT ![t] = cc]
        /\ scanner' = [scanner EXCEPT
               ![s].files_scanned = cc,
               ![s].files_found = IF Appended(o) THEN @ + 1 ELSE @]
        /\ futures' = [futures EXCEPT ![t] = @ - 1]
        /\ pc' = [pc EXCEPT ![t] = IF futures[t] = 1 THEN "ret" ELSE "pool"]
    /\ NoReturn /\ Quiet
    /\ UNCHANGED <<detailVars, current_session, session, scans, reports, callbacks,
                   lock, cpc, scan_id, tsession, files_to_scan>>

\* a task of a scan with config.verbose off / of any scan
ThreadTask(t) == \E o \in QuietOutcomes : ThreadTaskOutcome(t, o)
ThreadTaskVerbose(t) == \E o \in Outcomes : ThreadTaskOutcome(t, o)

\* _run_scan_thread, lines 238-244: scan() has returned the scanner's results
\* (a fresh empty list when there was no candidate) and its locals are gone;
\* the results are stored in the session, and the stop flag is read
ThreadReturn(t) ==
    /\ pc[t] = "ret"
    /\ LET s == tsession[t] IN
        /\ session' = [session EXCEPT ![s].results =
                          IF files_to_scan[t] = 0 THEN 0 ELSE scanner[s].files_found]
        /\ pc' = [pc EXCEPT ![t] =
                    IF session[s].stop_requested THEN "stopped" ELSE "report"]
    /\ files_to_scan' = [files_to_scan EXCEPT ![t] = 0]
    /\ completed_count' = [completed_count EXCEPT ![t] = 0]
    /\ futures' = [futures EXCEPT ![t] = 0]
    /\ NoReturn /\ Quiet
    /\ UNCHANGED <<detailVars, current_session, scanner, scans, reports, callbacks,
                   lock, cpc, scan_id, tsession>>

\* _run_scan_thread, lines 245-268: with findings a report is generated (which
\* may raise) and the ScanRecord, if stored, is rewritten as completed
ThreadReport(t) ==
    /\ pc[t] = "report"
    /\ LET s == tsession[t] IN
        IF session[s].results > 0
        THEN \/ /\ reports' = reports \cup {s}
                /\ IF get_scan(s).status # "none"
                   THEN save_scan(s, [status |-> "completed",
                                      files_found |-> session[s].results,
                                      report |-> TRUE])
                   ELSE UNCHANGED scans
                /\ pc' = [pc EXCEPT ![t] = "complete"]
             \/ /\ pc' = [pc EXCEPT ![t] = "except"]
                /\ UNCHANGED <<reports, scans>>
        ELSE /\ pc' = [pc EXCEPT ![t] = "complete"]
             /\ UNCHANGED <<reports, scans>>
    /\ NoReturn /\ Quiet
    /\ UNCHANGED <<detailVars, current_session, session, scanner, callbacks,
                   lock, cpc, scan_id, tsession, files_to_scan, completed_count, futures>>

\* _run_scan_thread, lines 247-266: the report is generated and the stored
\* record, if there is one, receives its final counts field by field
ThreadReportFields(t) ==
    /\ pc[t] = "report"
    /\ LET s == tsession[t] IN
        IF session[s].results > 0
        THEN \/ /\ reports' = reports \cup {s}
                /\ IF get_scan(s).status # "none"
                   THEN /\ scans' = [scans EXCEPT ![s].files_found = session[s].results,
                                                  ![s].report = TRUE]
                        /\ pc' = [pc EXCEPT ![t] = "report_status"]
                   ELSE /\ UNCHANGED scans
                        /\ pc' = [pc EXCEPT ![t] = "complete"]
             \/ /\ pc' = [pc EXCEPT ![t] = "except"]
                /\ UNCHANGED <<reports, scans>>
        ELSE /\ pc' = [pc EXCEPT ![t] = "complete"]
             /\ UNCHANGED <<reports, scans>>
    /\ NoReturn /\ Quiet
    /\ UNCHANGED <<detailVars, current_session, session, scanner, callbacks,
                   lock, cpc, scan_id, tsession, files_to_scan, completed_count, futures>>

\* _run_scan_thread, lines 267-268: the record's status becomes completed and
\* save_scan begins to write the history file
ThreadReportStatus(t) ==
    /\ pc[t] = "report_status"
    /\ scans' = [scans EXCEPT ![tsession[t]].status = "completed"]
    /\ pc' = [pc EXCEPT ![t] = "report_write"]
    /\ NoReturn /\ Quiet
    /\ UNCHANGED <<detailVars, current_session, session, scanner, reports, callbacks,
                   lock, cpc, scan_id, tsession, files_to_scan, completed_count, futures>>

\* _run_scan_thread, line 268: _save_history has written the file
ThreadReportWritten(t) ==
    /\ pc[t] = "report_write"
    /\ pc' = [pc EXCEPT ![t] = "complete"]
    /\ NoReturn /\ Quiet
    /\ UNCHANGED <<detailVars, mgrVars, lock, cpc, scan_id, tsession, files_to_scan,
                   completed_count, futures>>

\* _run_scan_thread, lines 270-278
ThreadComplete(t) ==
    /\ pc[t] = "complete"
    /\ session' = [session EXCEPT ![tsession[t]].status = "completed"]
    /\ _notify_status(<<"scan_complete", tsession[t]>>)
    /\ pc' = [pc EXCEPT ![t] = IF NotifyRaises(<<"scan_complete", tsession[t]>>)
                               THEN "except" ELSE "finally"]
    /\ NoReturn
    /\ UNCHANGED <<detailVars, current_session, scanner, scans, reports, callbacks,
                   lock, cpc, scan_id, tsession, files_to_scan, completed_count, futures>>

\* _run_scan_thread, lines 279-281
ThreadStopped(t) ==
    /\ pc[t] = "stopped"
    /\ session' = [session EXCEPT ![tsession[t]].status = "stopped"]
    /\ pc' = [pc EXCEPT ![t] = "finally"]
    /\ NoReturn /\ Quiet
    /\ UNCHANGED <<detailVars, current_session, scanner, scans, reports, callbacks,
                   lock, cpc, scan_id, tsession, files_to_scan, completed_count, futures>>

\* the except block: session error, record failed if it is stored; with
\* session None the handler's first statement raises again
ExceptBody(t) ==
    IF tsession[t] = NoSession
    THEN UNCHANGED <<session, scans>>
    ELSE /\ session' = [session EXCEPT ![tsession[t]].status = "error"]
         /\ IF get_scan(tsession[t]).status # "none"
            THEN save_scan(tsession[t], [get_scan(tsession[t]) EXCEPT !.status = "failed"])
            ELSE UNCHANGED scans

\* _run_scan_thread, lines 283-291, with the thread ending after the handler,
\* the release of the session not being in a finally block
ThreadExceptNoFinally(t) ==
    /\ pc[t] = "except"
    /\ ExceptBody(t)
    /\ pc' = [pc EXCEPT ![t] = "done"]
    /\ NoReturn /\ Quiet
    /\ UNCHANGED <<detailVars, current_session, scanner, reports, callbacks,
                   lock, cpc, scan_id, tsession, files_to_scan, completed_count, futures>>

\* _run_scan_thread, lines 283-291, as far as save_scan's line 53: session
\* error, the stored record failed, the write of the history file begins
ThreadExceptUpdate(t) ==
    /\ pc[t] = "except"
    /\ ExceptBody(t)
    /\ pc' = [pc EXCEPT ![t] = IF tsession[t] # NoSession
                                  /\ get_scan(tsession[t]).status # "none"
                               THEN "except_write" ELSE "finally"]
    /\ NoReturn /\ Quiet
    /\ UNCHANGED <<detailVars, current_session, scanner, reports, callbacks,
                   lock, cpc, scan_id, tsession, files_to_scan, completed_count, futures>>

\* _run_scan_thread, line 291: _save_history has written the file
ThreadExceptWritten(t) ==
    /\ pc[t] = "except_write"
    /\ pc' = [pc EXCEPT ![t] = "finally"]
    /\ NoReturn /\ Quiet
    /\ UNCHANGED <<detailVars, mgrVars, lock, cpc, scan_id, tsession, files_to_scan,
                   completed_count, futures>>

\* _run_scan_thread, lines 283-291
ThreadExcept(t) ==
    /\ pc[t] = "except"
    /\ ExceptBody(t)
    /\ pc' = [pc EXCEPT ![t] = "finally"]
    /\ NoReturn /\ Quiet
    /\ UNCHANGED <<detailVars, current_session, scanner, reports, callbacks,
                   lock, cpc, scan_id, tsession, files_to_scan, completed_count, futures>>

\* _run_scan_thread, lines 293-295: under the lock the reference is dropped;
\* the thread ends and its locals are gone
ThreadFinally(t) ==
    /\ pc[t] = "finally"
    /\ lock = 0
    /\ current_session' = NoSession
    /\ pc' = [pc EXCEPT ![t] = "done"]
    /\ tsession' = [tsession EXCEPT ![t] = NoSession]
    /\ session' = Sweep(session, NoSession, tsession')
    /\ scanner' = SweepScanner(scanner, session, NoSession, tsession')
    /\ files_to_scan' = [files_to_scan EXCEPT ![t] = 0]
    /\ completed_count' = [completed_count EXCEPT ![t] = 0]
    /\ futures' = [futures EXCEPT ![t] = 0]
    /\ NoReturn /\ Quiet
    /\ UNCHANGED <<detailVars, scans, reports, callbacks, lock, cpc, scan_id>>

\* ------------------------------------------------------------ specification
Next ==
    \/ add_status_callback
    \/ \E c \in Callers : StartReject(c)
    \/ \E c \in Callers : StartAccept(c)
    \/ \E c \in Callers : StartCreate(c)
    \/ \E c \in Callers : StartRecord(c)
    \/ \E c \in Callers : StopReject(c)
    \/ \E c \in Callers : StopAccept(c)
    \/ \E c \in Callers : StopSetFlag(c)
    \/ \E c \in Callers : StopSetStatus(c)
    \/ \E c \in Callers : get_current_status(c)
    \/ \E c \in Callers : StatusElif(c)
    \/ \E c \in Callers : StatusElse(c)
    \/ \E t \in Threads : ThreadBegin(t)
    \/ \E t \in Threads : ThreadCollect(t)
    \/ \E t \in Threads : ThreadTask(t)
    \/ \E t \in Threads : ThreadReturn(t)
    \/ \E t \in Threads : ThreadReport(t)
    \/ \E t \in Threads : ThreadComplete(t)
    \/ \E t \in Threads : ThreadStopped(t)
    \/ \E t \in Threads : ThreadExcept(t)
    \/ \E t \in Threads : ThreadFinally(t)

Spec == Init /\ [][Next]_vars

\* Scheduling: a started scan thread keeps running until it ends, a thread
\* waiting for session_lock obtains it once callers keep releasing it, and a
\* caller inside a manager method runs to its return.
ThreadRun(t) ==
    \/ ThreadBegin(t) \/ ThreadCollect(t) \/ ThreadTask(t) \/ ThreadReturn(t)
    \/ ThreadReport(t) \/ ThreadComplete(t) \/ ThreadStopped(t) \/ ThreadExcept(t)

CallerRun ==
    \E c \in Callers :
        \/ StartCreate(c) \/ StartRecord(c) \/ StopSetFlag(c) \/ StopSetStatus(c)
        \/ StatusElif(c) \/ StatusElse(c)

Fairness ==
    /\ \A t \in Threads : WF_vars(ThreadRun(t)) /\ SF_vars(ThreadFinally(t))
    /\ WF_vars(CallerRun)

\* the same program with MaxLiveScans scan ids, under fair scheduling
NextLive ==
    \/ add_status_callback
    \/ \E c \in Callers : StartReject(c)
    \/ \E c \in Callers : StartAcceptLive(c)
    \/ \E c \in Callers : StartCreate(c)
    \/ \E c \in Callers : StartRecord(c)
    \/ \E c \in Callers : StopReject(c)
    \/ \E c \in Callers : StopAccept(c)
    \/ \E c \in Callers : StopSetFlag(c)
    \/ \E c \in Callers : StopSetStatus(c)
    \/ \E c \in Callers : get_current_status(c)
    \/ \E c \in Callers : StatusElif(c)
    \/ \E c \in Callers : StatusElse(c)
    \/ \E t \in Threads : ThreadBegin(t)
    \/ \E t \in Threads : ThreadCollect(t)
    \/ \E t \in Threads : ThreadTask(t)
    \/ \E t \in Threads : ThreadReturn(t)
    \/ \E t \in Threads : ThreadReport(t)
    \/ \E t \in Threads : ThreadComplete(t)
    \/ \E t \in Threads : ThreadStopped(t)
    \/ \E t \in Threads : ThreadExcept(t)
    \/ \E t \in Threads : ThreadFinally(t)

FairSpec == Init /\ [][NextLive]_vars /\ Fairness

\* DiskScanner.scan in detail: MaxPoolScans scans of up to MaxPoolFiles
\* candidates, config.verbose on or off
NextPool ==
    \/ \E c \in Callers : StartReject(c)
    \/ \E c \in Callers : StartAcceptPool(c)
    \/ \E c \in Callers : StartCreate(c)
    \/ \E c \in Callers : StartRecord(c)
    \/ \E c \in Callers : StopReject(c)
    \/ \E c \in Callers : StopAccept(c)
    \/ \E c \in Callers : StopSetFlag(c)
    \/ \E c \in Callers : StopSetStatus(c)
    \/ \E t \in Threads : ThreadBegin(t)
    \/ \E t \in Threads : ThreadCollectPool(t)
    \/ \E t \in Threads : ThreadTaskVerbose(t)
    \/ \E t \in Threads : ThreadReturn(t)
    \/ \E t \in Threads : ThreadReport(t)
    \/ \E t \in Threads : ThreadComplete(t)
    \/ \E t \in Threads : ThreadStopped(t)
    \/ \E t \in Threads : ThreadExcept(t)
    \/ \E t \in Threads : ThreadFinally(t)

PoolSpec == Init /\ [][NextPool]_vars

\* the manager with observers that return and observers that raise
StartAcceptObserved(c) == StartAcceptWithin(c, MaxObserverScans)

NextObservers ==
    \/ add_status_callback_any
    \/ \E c \in Callers : StartReject(c)
    \/ \E c \in Callers : StartAcceptObserved(c)
    \/ \E c \in Callers : StartCreate(c)
    \/ \E c \in Callers : StartRecord(c)
    \/ \E c \in Callers : StopReject(c)
    \/ \E c \in Callers : StopAccept(c)
    \/ \E c \in Callers : StopSetFlag(c)
    \/ \E c \in Callers : StopSetStatus(c)
    \/ \E t \in Threads : ThreadBegin(t)
    \/ \E t \in Threads : ThreadCollect(t)
    \/ \E t \in Threads : ThreadTask(t)
    \/ \E t \in Threads : ThreadReturn(t)
    \/ \E t \in Threads : ThreadReport(t)
    \/ \E t \in Threads : ThreadComplete(t)
    \/ \E t \in Threads : ThreadStopped(t)
    \/ \E t \in Threads : ThreadExcept(t)
    \/ \E t \in Threads : ThreadFinally(t)

ObserverSpec == Init /\ [][NextObservers]_vars

\* the manager behind the request handler of /api/scan/start
NextRoute ==
    \/ \E c \in Callers : \E exists \in BOOLEAN : api_start_scan(c, exists)
    \/ \E c \in Callers : StartCreate(c)
    \/ \E c \in Callers : StartRecord(c)
    \/ \E c \in Callers : StopReject(c)
    \/ \E c \in Callers : StopAccept(c)
    \/ \E c \in Callers : StopSetFlag(c)
    \/ \E c \in Callers : StopSetStatus(c)
    \/ \E t \in Threads : ThreadBegin(t)
    \/ \E t \in Threads : ThreadCollect(t)
    \/ \E t \in Threads : ThreadTask(t)
    \/ \E t \in Threads : ThreadReturn(t)
    \/ \E t \in Threads : ThreadReport(t)
    \/ \E t \in Threads : ThreadComplete(t)
    \/ \E t \in Threads : ThreadStopped(t)
    \/ \E t \in Threads : ThreadExcept(t)
    \/ \E t \in Threads : ThreadFinally(t)

RouteSpec == Init /\ [][NextRoute]_vars

\* the manager with the updates of a ScanRecord and the writes of the history
\* file taken step by step, and a reader of the records
NextRecord ==
    \/ \E c \in Callers : StartReject(c)
    \/ \E c \in Callers : StartAcceptRecord(c)
    \/ \E c \in Callers : StartCreate(c)
    \/ \E c \in Callers : StartRecordInsert(c)
    \/ \E c \in Callers : StartRecordWritten(c)
    \/ \E c \in Callers : StopReject(c)
    \/ \E c \in Callers : StopAccept(c)
    \/ \E c \in Callers : StopSetFlag(c)
    \/ \E c \in Callers : StopSetStatus(c)
    \/ \E c \in Callers : \E s \in ScanIds : get_scan_report(c, s)
    \/ \E t \in Threads : ThreadBegin(t)
    \/ \E t \in Threads : ThreadCollect(t)
    \/ \E t \in Threads : ThreadTask(t)
    \/ \E t \in Threads : ThreadReturn(t)
    \/ \E t \in Threads : ThreadReportFields(t)
    \/ \E t \in Threads : ThreadReportStatus(t)
    \/ \E t \in Threads : ThreadReportWritten(t)
    \/ \E t \in Threads : ThreadComplete(t)
    \/ \E t \in Threads : ThreadStopped(t)
    \/ \E t \in Threads : ThreadExceptUpdate(t)
    \/ \E t \in Threads : ThreadExceptWritten(t)
    \/ \E t \in Threads : ThreadFinally(t)

RecordSpec == Init /\ [][NextRecord]_vars

\* ScanManager() called by every caller thread at once, before the program
\* has an instance
InitSingleton ==
    /\ InitFields
    /\ cls = NoInstance
    /\ fs = NoTree
    /\ walk = WalkStart
    /\ analysis = NoAnalysis
    /\ history = NoHistory

NextSingleton ==
    \/ \E c \in Callers : NewCheck(c)
    \/ \E c \in Callers : NewLock(c)
    \/ \E c \in Callers : NewTest(c)
    \/ \E c \in Callers : NewFlag(c)
    \/ \E c \in Callers : InitCheck(c)
    \/ \E c \in Callers : InitSession(c)
    \/ \E c \in Callers : InitLock(c)
    \/ \E c \in Callers : InitCallbacks(c)
    \/ \E c \in Callers : InitFlag(c)
    \/ UseManager

SingletonSpec == InitSingleton /\ [][NextSingleton]_vars

\* one run of _collect_files on any of the file trees
InitCollect ==
    /\ InitManager
    /\ fs \in FileTrees
    /\ walk = WalkStart
    /\ analysis = NoAnalysis
    /\ history = NoHistory

NextCollect ==
    \/ WalkDir
    \/ WalkReturn

CollectSpec == InitCollect /\ [][NextCollect]_vars

\* one run of analyze_file on any of the files
InitClassify ==
    /\ InitManager
    /\ fs = NoTree
    /\ walk = WalkStart
    /\ analysis \in [file : Files, scanned : {FALSE}, result : {NoFinding}]
    /\ history = NoHistory

NextClassify == _scan_file

ClassifySpec == InitClassify /\ [][NextClassify]_vars

\* a history store used and reloaded in any order
NextHistory ==
    \/ HistorySave
    \/ HistoryLoad
    \/ create_scan_directory
    \/ cleanup_old_scans

HistorySpec == Init /\ [][NextHistory]_vars

\* ------------------------------------------------------------ properties
ActiveSessions == {s \in ScanIds : session[s].status \in NonTerminal}
Pipelines == {t \in Threads : pc[t] \in {"collect", "pool", "ret", "report"}}

\* C1: at most one ScanSession is running or stopping at any time, and two
\* scan pipelines never execute concurrently.
C1_ExclusiveScan ==
    /\ Cardinality(ActiveSessions) <= 1
    /\ Cardinality(Pipelines) <= 1

StartConflict(id) ==
    [op |-> "start", ok |-> FALSE, status |-> "conflict", scan_id |-> id]

InStart(c) == cpc[c] \in {"start_create", "start_record"}

\* C3: the is-running check and the creation of the session are one atomic
\* unit with respect to every other caller: while a caller is between its
\* check and its return no other caller is inside or enters a manager method,
\* no other call returns, and at creation the check's answer still holds.
C3_CheckThenCreateAtomic ==
    [][\A c \in Callers :
        InStart(c)
        => /\ \A d \in Callers \ {c} : cpc[d] = "idle" /\ cpc'[d] = "idle"
           /\ cpc[c] = "start_create" => ~is_scan_running
           /\ response' # NoResponse => StartRecord(c)]_vars

C3_Witness ==
    \E c \in Callers :
        /\ cpc[c] = "start_create"
        /\ lock = c
        /\ ~is_scan_running
        /\ \E d \in Callers : FreeSlot(d)

\* a scan thread has set its session's terminal status and its finally block
\* has not yet cleared current_session
CleanupPending ==
    \E t \in Threads :
        /\ pc[t] = "finally"
        /\ tsession[t] # NoSession
        /\ current_session = tsession[t]
        /\ session[tsession[t]].status \in Terminal

\* C4: while the cleanup of a finished session is pending no start_scan is
\* accepted.
C4_NoStartWhileCleanupPending ==
    [][\A c \in Callers : CleanupPending => ~StartAccept(c)]_vars

\* C5: every started scan thread reaches the end of its finally block, on
\* every path; the step that ends it leaves current_session cleared and the
\* manager idle, so that the check of a new start_scan passes.
C5_SessionReleased ==
    /\ \A t \in Threads : (pc[t] = "begin") ~> (pc[t] = "done")
    /\ [][\A t \in Threads :
            (pc[t] # "done" /\ pc'[t] = "done")
            => (current_session' = NoSession /\ ~is_scan_running')]_vars

C5_Witness ==
    \E t \in Threads :
        /\ pc[t] = "done"
        /\ scans[t].status = "failed"
        /\ current_session = NoSession
        /\ \E c \in Callers : ENABLED StartAcceptLive(c)

StopRejected == [op |-> "stop", ok |-> FALSE, status |-> "none", scan_id |-> 0]

\* C6: stop_scan with no active session (no current session, or one already
\* in a terminal state) returns the no-active-session response and changes
\* nothing; no observer is invoked.
C6_StopWhenIdleNoMutation ==
    [][\A c \in Callers :
        ( /\ StopReject(c) \/ StopAccept(c)
          /\ \/ current_session = NoSession
             \/ session[current_session].status \notin NonTerminal )
        => /\ response' = StopRejected
           /\ notified' = {}
           /\ UNCHANGED <<mgrVars, threadVars, lock, cpc, scan_id>>]_vars

C6_Witness ==
    /\ response = StopRejected
    /\ current_session # NoSession
    /\ session[current_session].status \in Terminal
    /\ Len(callbacks) > 0

StopAccepted(id) ==
    [op |-> "stop", ok |-> TRUE, status |-> "stopping", scan_id |-> id]

\* a step of caller c inside an accepted stop_scan
StopStep(c) == cpc[c] \in {"stop_flag", "stop_status"} /\ cpc'[c] # cpc[c]

\* C7: an accepted stop_scan sets the stop flag and turns a running session
\* into a stopping one, and touches nothing of the pipeline: no scan thread
\* moves or ends, no counter changes, and a thread leaves the worker pool
\* only when every dispatched task has completed.
C7_StopOnlySetsFlag ==
    [][/\ \A c \in Callers :
            StopStep(c)
            => /\ session'[current_session].stop_requested
               /\ UNCHANGED <<current_session, scanner, scans, reports, callbacks,
                              threadVars>>
               /\ \A s \in ScanIds \ {current_session} : session'[s] = session[s]
               /\ session'[current_session].results = session[current_session].results
               /\ ( cpc[c] = "stop_status" /\ session[current_session].status = "running" )
                  => session'[current_session].status = "stopping"
               /\ cpc[c] = "stop_flag"
                  => session'[current_session].status = session[current_session].status
       /\ \A t \in Threads :
            pc[t] = "pool"
            => \/ pc'[t] = "pool"
               \/ pc'[t] = "ret" /\ futures'[t] = 0]_vars

C7_Witness ==
    \E t \in Threads :
        /\ pc[t] = "pool"
        /\ futures[t] > 0
        /\ tsession[t] = current_session
        /\ response = StopAccepted(current_session)
        /\ session[current_session].status = "stopping"
        /\ session[current_session].stop_requested

StopFlag(t) == session[tsession[t]].stop_requested

\* C8 as claimed: the stop flag is checked at two points, after collection and
\* after the worker pool has drained; a flag found set at either point ends
\* the pipeline there.
C8_CheckedAfterCollectionAndPool ==
    [][\A t \in Threads :
        /\ ( pc[t] = "collect" /\ StopFlag(t) ) => pc'[t] # "pool"
        /\ ( pc[t] = "ret" /\ StopFlag(t) ) => pc'[t] \in {"ret", "stopped"}]_vars

\* C8 as amended: the stop flag is checked at one point only, after
\* DiskScanner.scan has returned (the pool has drained, or collection found no
\* candidate).  What follows collection depends on the number of candidates
\* alone, and the stopped branch is entered only from that one check, with
\* every candidate classified.
C8_CheckedOnceAfterScanReturns ==
    [][\A t \in Threads :
        /\ ( pc[t] = "collect" /\ pc'[t] \notin {"collect", "except"} )
           => pc'[t] = IF files_to_scan'[t] = 0 THEN "ret" ELSE "pool"
        /\ ( pc[t] = "ret" /\ pc'[t] # "ret" )
           => pc'[t] = IF StopFlag(t) THEN "stopped" ELSE "report"
        /\ ( pc[t] # "stopped" /\ pc'[t] = "stopped" )
           => pc[t] = "ret" /\ futures[t] = 0]_vars

C8_Witness ==
    \E t \in Threads :
        /\ pc[t] = "pool"
        /\ futures[t] = files_to_scan[t]
        /\ files_to_scan[t] > 0
        /\ StopFlag(t)
        /\ session[tsession[t]].status = "stopping"

\* the ScanRecord of the thread's session has been stored by start_scan
RecordStored(t) == tsession[t] # NoSession /\ scans[tsession[t]].status # "none"

\* C9: when the pipeline has returned with the stop flag clear, the session
\* becomes completed and its stored ScanRecord is rewritten with the final
\* count and status completed, whatever the number of findings.
C9_CompletedRecordRewritten ==
    [][\A t \in Threads :
        ( pc[t] = "complete" /\ pc'[t] = "finally" /\ RecordStored(t) )
        => /\ session'[tsession[t]].status = "completed"
           /\ scans'[tsession[t]].status = "completed"
           /\ scans'[tsession[t]].files_found = session'[tsession[t]].results]_vars

\* C10: when the scan thread has found the stop flag set after the pipeline
\* returned, the session becomes stopped, its stored ScanRecord is rewritten
\* with status stopped, and no report is generated.
C10_StoppedRecordRewritten ==
    [][\A t \in Threads :
        ( pc[t] = "stopped" /\ pc'[t] = "finally" /\ RecordStored(t) )
        => /\ session'[tsession[t]].status = "stopped"
           /\ scans'[tsession[t]].status = "stopped"
           /\ tsession[t] \notin reports']_vars

\* the start_scan call that created session s has not yet returned
StartPending(s) == \E c \in Callers : InStart(c) /\ scan_id[c] = s

\* C11: once the exception handler of a scan thread has marked its session
\* error and the start_scan call that created the session has returned, the
\* ScanRecord of that scan id has status failed.
C11_FailureMarksRecordFailed ==
    \A t \in Threads :
        ( /\ pc[t] = "finally"
          /\ tsession[t] # NoSession
          /\ session[tsession[t]].status = "error"
          /\ ~StartPending(tsession[t]) )
        => scans[tsession[t]].status = "failed"

RecordTerminal == {"completed", "stopped", "failed"}

\* C12: the stored status of a ScanRecord is monotone: a record is first
\* stored as running, a running record stays running or becomes completed,
\* stopped or failed, and a record with one of these three never changes
\* its status again.
C12_RecordStatusMonotone ==
    [][\A s \in ScanIds :
        /\ scans[s].status = "none" => scans'[s].status \in {"none", "running"}
        /\ scans[s].status = "running"
           => scans'[s].status \in {"running"} \cup RecordTerminal
        /\ scans[s].status \in RecordTerminal
           => scans'[s].status = scans[s].status]_vars

\* C13: every value get_current_status returns describes the manager as it
\* is at the return: idle and not running with no current session; running,
\* is_running true and the scanner's progress for a running session; the bare
\* stopping indicator with is_running true for a stopping session; the
\* terminal status, the final results and is_running false for a session in a
\* terminal state.
C13_StatusReflectsState ==
    [][response'.op = "status"
       => /\ UNCHANGED <<mgrVars, threadVars>>
          /\ IF current_session = NoSession
             THEN response' = StatusIdle
             ELSE LET s == current_session IN
                  /\ response'.scan_id = s
                  /\ response'.status = session[s].status
                  /\ session[s].status = "running"
                     => /\ response'.ok
                        /\ response'.progress = scanner[s].files_scanned
                  /\ session[s].status = "stopping"
                     => response' = StatusStopping(s)
                  /\ session[s].status \in Terminal
                     => /\ ~response'.ok
                        /\ response'.results = session[s].results]_vars

C13_Witness ==
    /\ response.op = "status"
    /\ current_session # NoSession
    /\ response.status = "completed"
    /\ response.results > 0
    /\ ~response.ok
    /\ \E t \in Threads : tsession[t] = current_session /\ pc[t] = "finally"

\* the sessions whose objects exist
Live == {s \in ScanIds : session[s].status \notin {"none", "dropped"}}

\* C14: within a session files_scanned never decreases, and once the session
\* is in a terminal state files_scanned equals the number of candidate paths.
C14_FilesScannedMonotoneAndFinal ==
    [][\A s \in Live :
        /\ s \in Live' => scanner'[s].files_scanned >= scanner[s].files_scanned
        /\ session'[s].status \in Terminal
           => scanner'[s].files_scanned = scanner'[s].estimated_total_files]_vars

\* a task that fails with an exception
Failing == {"failed", "failed_raise"}

\* C15: a classification task that fails with an exception is counted once as
\* scanned and not as found, and the pool goes on: the loop ends only when
\* every future has been harvested, and scan() then returns its findings.
C15_FailedTaskCountedOnce ==
    [][\A t \in Threads :
        /\ \A o \in Failing :
             ThreadTaskOutcome(t, o)
             => /\ completed_count'[t] = completed_count[t] + 1
                /\ scanner'[tsession[t]].files_scanned = completed_count[t] + 1
                /\ scanner'[tsession[t]].files_found = scanner[tsession[t]].files_found
                /\ futures'[t] = futures[t] - 1
                /\ pc'[t] = IF futures'[t] > 0 THEN "pool" ELSE "ret"
        /\ ( pc[t] = "pool" /\ pc'[t] # "pool" ) => pc'[t] = "ret" /\ futures'[t] = 0
        /\ ( pc[t] = "ret" /\ pc'[t] # "ret" /\ files_to_scan[t] > 0 )
           => session'[tsession[t]].results = scanner[tsession[t]].files_found]_vars

\* every candidate classified, all but one of them with a finding
C15_Witness ==
    \E t \in Threads :
        /\ pc[t] = "ret"
        /\ files_to_scan[t] = MaxPoolFiles
        /\ futures[t] = 0
        /\ completed_count[t] = MaxPoolFiles
        /\ scanner[tsession[t]].files_scanned = MaxPoolFiles
        /\ scanner[tsession[t]].files_found = MaxPoolFiles - 1

\* C16: in every state files_found <= files_scanned <= the number of
\* candidate paths.
C16_FoundScannedCandidates ==
    \A s \in Live :
        /\ scanner[s].files_found <= scanner[s].files_scanned
        /\ scanner[s].files_scanned <= scanner[s].estimated_total_files

\* the entries of the file tree, as <<directory, index>>
Entries == UNION {{<<d, i>> : i \in DOMAIN fs.files[d]} : d \in fs.dirs}
EntryOf(e) == fs.files[e[1]][e[2]]
Regular(e) == EntryOf(e).kind = "regular"
InSkipped(d) == \E i \in 1..Len(d) : d[i] \in SkippedNames
Range(seq) == {seq[i] : i \in 1..Len(seq)}

\* C17 as claimed: with the root at depth 0 and every level below it one more,
\* no directory deeper than max_depth is listed, and no file of such a
\* directory is counted or becomes a candidate.
C17_NeverPastMaxDepth ==
    /\ \A d \in walk.listed : Len(d) <= fs.max_depth
    /\ \A e \in walk.counted \cup Range(walk.files) : Len(e[1]) <= fs.max_depth

RuleMatches(f) ==
    \/ SubstringsOf(lower(f.name)) \cap wallet_patterns # {}
    \/ lower(f.suffix) \in crypto_extensions
    \/ lower(f.suffix) \in crypto_content_extensions

\* C19: a visited regular non-symlink file is in the candidate list, once, if
\* and only if its size is at most max_file_size and an inclusion rule matches.
C19_CandidateIffSmallAndRule ==
    /\ Range(walk.files) =
          {e \in Entries : /\ e[1] \in walk.visited
                           /\ Regular(e)
                           /\ EntryOf(e).size <= fs.max_file_size
                           /\ RuleMatches(EntryOf(e))}
    /\ Cardinality(Range(walk.files)) = Len(walk.files)

Named(e, name) == EntryOf(e).name = name

C19_Witness ==
    /\ walk.returned
    /\ \E e \in Range(walk.files) : Named(e, "notes.log")
    /\ \E e \in Range(walk.files) : Named(e, "id.pem")
    /\ \E e \in Range(walk.files) : Named(e, "UTC--2020")
    /\ \E e \in Range(walk.files) :
          Named(e, "WALLET.DAT") /\ EntryOf(e).size = fs.max_file_size
    /\ \E e \in walk.counted \ Range(walk.files) : Named(e, "photo.jpg")
    /\ \E e \in walk.counted \ Range(walk.files) : Named(e, "big.key")
    /\ \E e \in Entries : e[1] \in walk.visited /\ Named(e, "wallet.lnk")

\* the directories whose files the walk is to process
Eligible(d) == ~InSkipped(d) /\ dir_depth(d) <= fs.max_depth

\* C20: an entry whose stat() raises is skipped by itself: after collection
\* every directory the walk is to process has been processed, and every
\* regular file in it is counted and, if it qualifies, a candidate.
C20_FileErrorSkipsOnlyThatFile ==
    walk.returned
    => \A d \in fs.dirs :
          Eligible(d)
          => /\ d \in walk.visited
             /\ \A e \in Entries :
                  ( e[1] = d /\ Regular(e) )
                  => /\ e \in walk.counted
                     /\ ( EntryOf(e).size <= fs.max_file_size /\ RuleMatches(EntryOf(e)) )
                        => e \in Range(walk.files)

\* a stat() error on the first entry of a directory, a candidate behind it in
\* the same directory, and a candidate in a directory processed later
C20_Witness ==
    /\ walk.returned
    /\ \E i, j, k \in 1..Len(walk.files) :
          /\ i < j /\ j < k
          /\ \E e \in Entries :
                /\ e[1] = walk.files[i][1]
                /\ e[2] < walk.files[i][2]
                /\ EntryOf(e).kind = "error"
          /\ walk.files[j][1] = walk.files[i][1]
          /\ walk.files[k][1] # walk.files[i][1]

\* ------------------------------------------------- properties, classifier
\* the file was analysed and went down the binary / the text path
ScannedBinary == analysis.scanned /\ _is_binary_file(analysis.file)
ScannedText == analysis.scanned /\ ~_is_binary_file(analysis.file)

\* a wallet token is part of the lower-cased name
HasToken(f) == SubstringsOf(lower(f.name)) \cap wallet_patterns # {}

\* C21: for a file classified as binary (and readable) the finding is that of
\* the first rule that matches, in the order: filename token (confidence
\* 0.8), product-name signature (0.6 or 0.7), 4-byte magic number (0.9);
\* when none matches there is no finding.
C21_BinaryOrder ==
    (ScannedBinary /\ analysis.file.readable) =>
        LET f == analysis.file
            r == analysis.result
        IN CASE HasToken(f) ->
                    r.detection_method = "filename_pattern" /\ r.confidence = 8
             [] ~HasToken(f) /\ f.content.signatures # {} ->
                    r.detection_method = "binary_signature" /\ r.confidence \in {6, 7}
             [] ~HasToken(f) /\ f.content.signatures = {} /\ f.content.magic ->
                    r.detection_method = "bitcoin_wallet_magic" /\ r.confidence = 9
             [] OTHER -> r = NoFinding

\* a binary file without a token in its name, whose bytes hold a product
\* name and the magic number, was reported by the product name
C21_Witness ==
    /\ ScannedBinary
    /\ analysis.file.readable
    /\ ~HasToken(analysis.file)
    /\ analysis.file.content.signatures # {}
    /\ analysis.file.content.magic
    /\ analysis.result.detection_method = "binary_signature"

\* a readable file named wallet.dat whose bytes hold the magic number
WalletDatWithMagic ==
    /\ analysis.scanned
    /\ analysis.file.name = "wallet.dat"
    /\ analysis.file.readable
    /\ analysis.file.content.magic

\* C22 (as stated): a file named wallet.dat whose content holds the magic
\* number E6 E1 CF FA is reported as bitcoin_core_wallet with confidence 0.9
\* by the magic-number rule.
C22_WalletDatByMagic ==
    WalletDatWithMagic =>
        analysis.result = ScanResult("bitcoin_core_wallet", 9, "bitcoin_wallet_magic")

\* C22 (amended): such a file, classified as binary, is reported as
\* bitcoin_core_wallet_file with confidence 0.8 by the filename rule; on
\* neither path is its finding that of the magic-number rule.
C22_WalletDatByName ==
    WalletDatWithMagic =>
        /\ _is_binary_file(analysis.file) =>
              analysis.result = ScanResult("bitcoin_core_wallet_file", 8, "filename_pattern")
        /\ analysis.result.detection_method # "bitcoin_wallet_magic"

\* the wallet.dat of test_sawdisk.py, classified as binary, was reported by
\* its name
C22_Witness ==
    /\ WalletDatWithMagic
    /\ analysis.file.content.label = "magic"
    /\ analysis.file.mime = "other"
    /\ analysis.result.detection_method = "filename_pattern"

\* a line of the content is a bare string of 64 hex digits
HasHexLine(f) == \E i \in DOMAIN f.content.lines : f.content.lines[i] = "hex"

\* C23: a readable file, binary or text, whose name carries a wallet token
\* and whose content holds a bare 64-hex private key is reported by the
\* filename rule, never by a private-key rule.
C23_NameBeatsHexKey ==
    (analysis.scanned /\ analysis.file.readable
        /\ HasToken(analysis.file) /\ HasHexLine(analysis.file)) =>
        analysis.result.detection_method = "filename_pattern"

\* what each rule of the text path matches on, stated on the content
JsonRule(f) ==
    /\ f.content.json = "dict"
    /\ \/ "crypto" \in f.content.keys /\ "keystore" \in SubstringsOf(lower(f.name))
       \/ f.content.keys \cap {"walletModel", "wallets", "primaryWallet"} # {}
KeyRule(f) ==
    f.content.wif \/ \E i \in DOMAIN f.content.lines : f.content.lines[i] \in {"hex", "hex0x"}
SeedRule(f) ==
    /\ f.content.words \in 12..24
    /\ \E i \in DOMAIN f.content.first : f.content.first[i]
ConfigRule(f) == f.content.configs # {}

JsonMethods == {"ethereum_keystore_json", "multibit_json", "exodus_json"}
KeyMethods == {"wif_pattern", "eth_hex_pattern", "hex_64_pattern"}

\* C24: for a file classified as text (and readable) the single finding is
\* that of the first rule that matches, in the order: JSON wallet structure,
\* private-key regex, seed-phrase heuristic, wallet-config pattern; when none
\* matches there is no finding.
C24_TextOrder ==
    (ScannedText /\ analysis.file.readable) =>
        LET f == analysis.file
            m == analysis.result.detection_method
        IN CASE JsonRule(f) -> m \in JsonMethods
             [] ~JsonRule(f) /\ KeyRule(f) -> m \in KeyMethods
             [] ~JsonRule(f) /\ ~KeyRule(f) /\ SeedRule(f) -> m = "bip39_word_check"
             [] ~JsonRule(f) /\ ~KeyRule(f) /\ ~SeedRule(f) /\ ConfigRule(f) ->
                    m = "config_pattern"
             [] OTHER -> analysis.result = NoFinding

\* a text file matching both the private-key and the seed-phrase rule was
\* reported by the private-key rule
C24_Witness ==
    /\ ScannedText
    /\ analysis.file.readable
    /\ KeyRule(analysis.file)
    /\ SeedRule(analysis.file)
    /\ analysis.result.detection_method \in KeyMethods

\* C25: a text file with a line that is a bare 64-hex-digit string, with no
\* 0x-prefixed line, no WIF line and no JSON wallet structure, is reported as
\* generic_private_key with confidence 0.5.
C25_BareHexIsGeneric ==
    (ScannedText /\ analysis.file.readable /\ ~JsonRule(analysis.file)
        /\ ~analysis.file.content.wif
        /\ HasHexLine(analysis.file)
        /\ \A i \in DOMAIN analysis.file.content.lines :
              analysis.file.content.lines[i] # "hex0x") =>
        analysis.result = ScanResult("generic_private_key", 5, "hex_64_pattern")

\* a content of exactly twelve plain words, none of the first five in the
\* word list: no JSON, no key
TwelvePlainWords(f) ==
    /\ f.content.words = 12
    /\ \A i \in DOMAIN f.content.first : ~f.content.first[i]
    /\ f.content.json = "invalid"
    /\ ~KeyRule(f)

\* the seed-phrase rule returns a finding exactly when the content has 12 to
\* 24 words and one of the first five is in the word list
SeedRuleExact ==
    analysis.scanned =>
        ((_check_seed_phrases(analysis.file.content) # NoFinding) <=> SeedRule(analysis.file))

\* C26 (as stated): the seed-phrase rule fires exactly on 12 to 24 words with
\* one of the first five in the word list, and a text file of exactly twelve
\* words whose first five are outside the word list yields no finding at all.
C26_TwelveWordsNoFinding ==
    /\ SeedRuleExact
    /\ (ScannedText /\ analysis.file.readable /\ TwelvePlainWords(analysis.file)) =>
          analysis.result = NoFinding

\* C26 (amended): the seed-phrase rule fires exactly on 12 to 24 words with
\* one of the first five in the word list, and a text file of exactly twelve
\* words whose first five are outside the word list yields no finding unless
\* a wallet-config pattern matches its words, which is then what is reported.
C26_TwelveWordsNoSeedFinding ==
    /\ SeedRuleExact
    /\ (ScannedText /\ analysis.file.readable /\ TwelvePlainWords(analysis.file)) =>
          IF ConfigRule(analysis.file)
          THEN analysis.result.detection_method = "config_pattern"
               /\ analysis.result.confidence = 5
          ELSE analysis.result = NoFinding

\* a text file of twelve words, none of the first five in the word list and
\* no config pattern in them, was analysed and gave no finding
C26_Witness ==
    /\ ScannedText
    /\ analysis.file.readable
    /\ TwelvePlainWords(analysis.file)
    /\ ~ConfigRule(analysis.file)
    /\ analysis.result = NoFinding

\* C27: analyze_file returns no finding for a file that cannot be opened,
\* whatever its name is.
C27_UnreadableNoFinding ==
    (analysis.scanned /\ ~analysis.file.readable) => analysis.result = NoFinding

\* ---------------------------------------------- properties, history store
\* the records a new ScanHistoryManager would load from the history file
Reloaded == Range(_load_history(history.history_file))

C29_HistoryTrimmed ==
    Cardinality({s \in ScanIds : get_scan(s) # NoRecord}) <= MaxKept

Least(a, b) == IF a < b THEN a ELSE b

\* the records the step removes from the history
Evicted == Range(history.scans) \ Range(history'.scans)

C36_TerminalStatusIsFinal ==
    [][\A s \in ScanIds :
        session[s].status \in Terminal
        => session'[s].status \notin NonTerminal]_vars

\* no caller is inside an accepted stop_scan
NoStopInProgress == \A c \in Callers : cpc[c] \notin {"stop_flag", "stop_status"}

\* C37: a session whose status is completed has its stop flag clear: once a
\* stop_scan has returned success for a session, the session does not end
\* completed.
C37_CompletedOnlyIfNotStopped ==
    \A s \in ScanIds :
        ( session[s].status = "completed" /\ NoStopInProgress )
        => ~session[s].stop_requested

\* C38: while the thread of a session is alive and the session is running or
\* stopping, current_session refers to that session; and the release step of
\* a finishing thread leaves a reference to another session as it is.
C38_CurrentSessionTracksPipeline ==
    /\ \A t \in Threads :
         ( is_alive(t) /\ session[t].status \in NonTerminal )
         => current_session = t
    /\ [][\A t \in Threads :
            ( ThreadFinally(t) /\ current_session # t )
            => current_session' = current_session]_vars

\* the step in which scan thread t looks up the ScanRecord of its session
ThreadLooksUpRecord(t) ==
    /\ tsession[t] # NoSession
    /\ \/ pc[t] = "report" /\ pc'[t] = "complete" /\ session[tsession[t]].results > 0
       \/ pc[t] = "except" /\ pc'[t] = "finally"

\* C39: whenever a scan thread looks up the ScanRecord of its session, the
\* record written by start_scan is already stored: the thread never finds
\* none and skips its terminal update.
C39_RecordStoredBeforeThreadReads ==
    [][\A t \in Threads :
        ThreadLooksUpRecord(t) => get_scan(tsession[t]).status # "none"]_vars

\* the phases of a scan thread that do the scan's I/O: collecting files,
\* classifying them in the worker pool, generating the report
ScanPhases == {"collect", "pool", "ret", "report"}

InStatus(c) == cpc[c] \in {"status_stopping", "status_else"}

\* C35: get_current_status never waits for the scan's I/O: a step of a scan
\* thread in a collecting, classifying or reporting phase neither takes nor
\* releases session_lock; with the lock free a status query can start
\* whatever the phase of any scan thread, a query that has started can always
\* take its next step, and it returns.
C35_StatusNeverBlockedByScan ==
    /\ [][\A t \in Threads :
            ( pc[t] \in ScanPhases /\ ThreadRun(t) ) => lock' = lock]_vars
    /\ [](\A c \in Callers :
            /\ ( FreeSlot(c) /\ LockFree ) => ENABLED get_current_status(c)
            /\ InStatus(c) => ENABLED ( StatusElif(c) \/ StatusElse(c) ))
    /\ \A c \in Callers : InStatus(c) ~> ( cpc[c] = "idle" )

\* a status query has returned the progress of a scan whose thread is still
\* classifying files
C35_Witness ==
    \E t \in Threads :
        /\ pc[t] = "pool"
        /\ futures[t] > 0
        /\ lock = 0
        /\ tsession[t] = current_session
        /\ response = StatusRunning(current_session)

\* ------------------------------------------------------------ properties, observers
\* the calls _notify_status makes when every registered observer is called
AllInvoked(update) == {<<i, update>> : i \in 1..Len(callbacks)}

SomeObserverRaises == \E i \in 1..Len(callbacks) : callbacks[i] = "raises"

\* C33: an accepted stop_scan and a completion each call every registered
\* observer within the step, whether or not some observer raises; the session
\* becomes stopping, stop_scan returns its success response, the completed
\* session stays completed and its thread proceeds to the finally block, as
\* with observers that all return.
C33_ObserverFailureIsolated ==
    [][/\ \A c \in Callers :
            StopSetStatus(c)
            => /\ notified' = AllInvoked(<<"stopping", current_session>>)
               /\ session'[current_session].status = "stopping"
               /\ response' = StopAccepted(current_session)
               /\ lock' = 0
       /\ \A t \in Threads :
            ThreadComplete(t)
            => /\ notified' = AllInvoked(<<"scan_complete", tsession[t]>>)
               /\ session'[tsession[t]].status = "completed"
               /\ pc'[t] = "finally"
       /\ ( /\ \A c \in Callers : ~StopSetStatus(c)
            /\ \A t \in Threads : ~ThreadComplete(t) )
          => notified' = {}]_vars

\* the first of two observers raises and the second has still been called for
\* the completion of a scan
C33_Witness ==
    \E t \in Threads :
        /\ Len(callbacks) = 2
        /\ callbacks[1] = "raises"
        /\ <<2, <<"scan_complete", t>>>> \in notified
        /\ session[t].status = "completed"
        /\ pc[t] = "finally"

\* ------------------------------------------------------------ properties, request handler
\* C34: a start request whose scan path does not exist is answered with the
\* path-not-found error and changes nothing: no session is created, no
\* thread is started, no ScanRecord is written, the lock is not taken.
C34_MissingPathRejectedFirst ==
    [][\A c \in Callers :
        api_start_scan(c, FALSE)
        => /\ response' = PathNotFound
           /\ notified' = {}
           /\ UNCHANGED <<mgrVars, threadVars, lock, cpc, scan_id>>]_vars

\* a request for a missing path has been rejected while no scan is running
\* and one could have been started
C34_Witness ==
    /\ response = PathNotFound
    /\ ~is_scan_running
    /\ LockFree
    /\ \E c \in Callers : ENABLED StartAcceptWithin(c, MaxRouteScans)
    /\ \A s \in ScanIds : scans[s].status = "none" /\ pc[s] = "unstarted"

\* ------------------------------------------------------------ properties, record updates
\* the executions of ScanHistoryManager._save_history in progress
Writers ==
    {<<"start_scan", c>> : c \in {d \in Callers : cpc[d] = "start_write"}}
    \cup {<<"thread", t>> : t \in {u \in Threads : pc[u] \in {"report_write", "except_write"}}}

\* C31: at no time are two writes of the history file in progress.
C31_HistoryWritesSerialized == Cardinality(Writers) <= 1

\* a record as start_scan stores it, and the records a finished update leaves
RecordBefore(r) == r.status = "running" /\ r.files_found = 0 /\ ~r.report
RecordAfter(r) == r.status \in {"completed", "failed"}

\* C32: a reader of a stored ScanRecord sees the record as it was before an
\* update or as it is after it: never final counts or a report together with
\* status running.
C32_ReaderSeesWholeRecord ==
    [][( response'.op = "record" /\ response'.ok )
       => ( RecordBefore(response') \/ RecordAfter(response') )]_vars

\* ------------------------------------------------------------ properties, construction
\* the statements of __init__ that assign the manager's fields
InitBody == {"init_session", "init_lock", "init_callbacks"}

\* C40: every ScanManager() returns the one instance, the body of __init__
\* runs once, and no field of the manager is assigned by __init__ once some
\* ScanManager() has returned: the registered observers are never lost.
C40_InitializedExactlyOnce ==
    /\ [](\A c \in Callers : cpc[c] # "raised")
    /\ [](cls.inits <= 1)
    /\ [][\A c \in Callers :
            ( cpc[c] \in InitBody /\ cpc'[c] # cpc[c] )
            => \A d \in Callers : cpc[d] # "constructed"]_vars
    /\ [][Len(callbacks') >= Len(callbacks)]_vars

TypeOK ==
    /\ current_session \in 0..MaxScans
    /\ lock \in 0..NumCallers
    /\ callbacks \in UNION {[1..n -> ObserverKinds] : n \in 0..MaxObservers}
    /\ cls.instance \in BOOLEAN
    /\ cls.initialized \in {"unset", "false", "true"}
    /\ cls.lock \in 0..NumCallers
    /\ cls.inits \in 0..NumCallers
    /\ \A s \in ScanIds : session[s].status \in {"none"} \cup NonTerminal \cup Terminal \cup {"dropped"}
====
